---- MODULE Spec2Model ----
(***************************************************************************)
(* Verification model of the forge-clm NLP core (packages/nlp):            *)
(*   - extract_all_entities and CombinedExtractor._merge   (SpecMerge)     *)
(*   - SectionDetector, ClauseChunker, DocumentProcessor   (SpecChunk)     *)
(*   - IngestionPipeline.ingest over a DbClient            (Spec)          *)
(* Annotations carry integer offsets; confidence is in percent             *)
(* (100 = 1.0, 0 = 0.0).                                                   *)
(***************************************************************************)
EXTENDS Integers, Sequences, FiniteSets, TLC

VARIABLES
    \* extract_all_entities / CombinedExtractor.extract
    all_results,    \* concatenated output of the twelve extractors
    ner_results,    \* output of NERService.extract_entities
    rule_results,   \* extract_all_entities(text)
    merged,         \* CombinedExtractor._merge(rule_results, ner_results)
    mphase,         \* "input" | "done"
    \* SectionDetector / ClauseChunker / DocumentProcessor
    text,           \* the document, as its sequence of paragraphs
    sections,       \* SectionDetector.detect(text)
    chunks,         \* DocumentProcessor.process(text)
    cphase,         \* "input" | "done"
    \* InMemoryDbClient
    contracts,      \* contract records, in insertion order
    db_chunks,      \* chunk records, in insertion order
    annotations,    \* entity annotation records
    audit_logs,     \* audit.agent_execution_log
    next_uuid,      \* the next value uuid.uuid4() returns
    \* IngestionPipeline
    _use_ner,       \* self._use_ner
    _extractor,     \* self._extractor: None or "CombinedExtractor"
    model_present,  \* whether the NER model directory exists
    pc,             \* position of the current ingest call
    run,            \* the locals of the current ingest call
    calls,          \* operations invoked by the current ingest call, in order
    before,         \* <<contracts, db_chunks, annotations>> when the call started
    runs,           \* number of ingest calls started
    \* direct calls of check_quality, map_entities_to_metadata,
    \* _assign_entities_to_chunks and InMemoryDbClient.upsert_contract
    in_entities,            \* the entities argument
    in_metadata,            \* the metadata argument
    in_s3_key,              \* the s3_key argument
    in_chunk_entity_counts, \* the chunk_entity_counts argument: NoCounts or a list
    out_metadata,           \* map_entities_to_metadata(entities)
    out_report,             \* check_quality(metadata, entities, ...)
    out_entities_per_chunk, \* _assign_entities_to_chunks(entities, chunks)
    out_contract_id,        \* the id upsert_contract returned
    ncalls,                 \* number of direct upsert_contract calls made
    date_results,           \* the list extract_dates returned
    fphase                  \* "input" | "done"

mvars == <<all_results, ner_results, rule_results, merged, mphase>>

cvars == <<text, sections, chunks, cphase>>

dbvars == <<contracts, db_chunks, annotations, audit_logs, next_uuid>>

pvars == <<_use_ner, _extractor, model_present, pc, run, calls, before, runs>>

fvars == <<in_entities, in_metadata, in_s3_key, in_chunk_entity_counts,
           out_metadata, out_report, out_entities_per_chunk, out_contract_id,
           ncalls, date_results, fphase>>

vars == <<all_results, ner_results, rule_results, merged, mphase,
          text, sections, chunks, cphase,
          contracts, db_chunks, annotations, audit_logs, next_uuid,
          _use_ner, _extractor, model_present, pc, run, calls, before, runs,
          in_entities, in_metadata, in_s3_key, in_chunk_entity_counts,
          out_metadata, out_report, out_entities_per_chunk, out_contract_id,
          ncalls, date_results, fphase>>

\* the components a specification does not exercise stay in their initial state
MergeIdle ==
    /\ all_results = <<>>
    /\ ner_results = <<>>
    /\ rule_results = <<>>
    /\ merged = <<>>
    /\ mphase = "input"

ChunkIdle ==
    /\ text = <<>>
    /\ sections = <<>>
    /\ chunks = <<>>
    /\ cphase = "input"

\* chunk_entity_counts = None (a count is never negative)
NoCounts == <<-1>>

\* no direct call of a pipeline function has been set up
FunctionsIdle ==
    /\ in_entities = <<>>
    /\ in_metadata = "None"
    /\ in_s3_key = "None"
    /\ in_chunk_entity_counts = NoCounts
    /\ out_metadata = "None"
    /\ out_report = "None"
    /\ out_entities_per_chunk = <<>>
    /\ out_contract_id = 0
    /\ ncalls = 0
    /\ date_results = <<>>
    /\ fphase = "input"

\* the locals of ingest before the call has assigned them
NoRun ==
    [s3_key |-> "None", document_type |-> "None", task_id |-> 0,
     content |-> "None", text |-> <<>>, entities |-> <<>>, chunks |-> <<>>,
     embedded_chunks |-> <<>>, metadata |-> "None", entities_per_chunk |-> <<>>,
     quality |-> "None", contract_id |-> 0, chunk_ids |-> <<>>,
     annotation_count |-> 0, result |-> "None", exc |-> "None",
     raised |-> "None"]

\* a freshly constructed InMemoryDbClient and an IngestionPipeline on which
\* ingest has not been called (not constrained: _use_ner, model_present)
PipelineIdle ==
    /\ contracts = <<>>
    /\ db_chunks = <<>>
    /\ annotations = <<>>
    /\ audit_logs = <<>>
    /\ next_uuid = 1
    /\ _extractor = "None"
    /\ pc = "idle"
    /\ run = NoRun
    /\ calls = <<>>
    /\ before = <<<<>>, <<>>, <<>>>>
    /\ runs = 0

\* the pipeline of the specifications that do not exercise it
PipelineUnused == PipelineIdle /\ _use_ner = FALSE /\ model_present = FALSE

----------------------------------------------------------------------------
(* Generic helpers                                                         *)

\* the subsequence of s whose elements satisfy Keep, in order
SelectIdx(s, Keep(_)) ==
    LET F[i \in 0..Len(s)] ==
            IF i = 0 THEN <<>>
            ELSE IF Keep(i) THEN Append(F[i-1], s[i]) ELSE F[i-1]
    IN F[Len(s)]

----------------------------------------------------------------------------
(* Entity annotations                                                      *)

\* bounds of the merge model
MaxPos == 2         \* character offsets range over 0..MaxPos
MaxAnnotations == 3 \* annotations the battery and the model return together

RuleTypes == {"DATE", "FAR_CLAUSE"}
NerTypes == {"CONTRACTING_OFFICER", "DATE"}

\* Python string order of the entity_type tags used here
TypeRank(t) ==
    CASE t = "CONTRACTING_OFFICER" -> 1
      [] t = "CONTRACT_NUMBER" -> 2
      [] t = "DATE" -> 3
      [] t = "DOLLAR_AMOUNT" -> 4
      [] t = "FAR_CLAUSE" -> 5
      [] t = "SECURITY_LEVEL" -> 6
      [] OTHER -> 7

EntityAnnotation(t, s, e, c) ==
    [entity_type |-> t, start_char |-> s, end_char |-> e, confidence |-> c]

Spans == {<<s, e>> \in (0..MaxPos) \X (0..MaxPos) : s < e}

\* what a rule-based extractor can return: confidence 1.0
RuleAnnotations == {EntityAnnotation(t, sp[1], sp[2], 100) : t \in RuleTypes, sp \in Spans}

\* what NERService can return: confidence 0.0
NerAnnotations == {EntityAnnotation(t, sp[1], sp[2], 0) : t \in NerTypes, sp \in Spans}

Key(a) == <<a.entity_type, a.start_char, a.end_char>>

\* sort key (start_char, entity_type): a strictly before b
LessStartType(a, b) ==
    \/ a.start_char < b.start_char
    \/ a.start_char = b.start_char /\ TypeRank(a.entity_type) < TypeRank(b.entity_type)

\* sort key start_char only
LessStart(a, b) == a.start_char < b.start_char

\* Python's sorted(): stable, so x goes after every element not greater than it
StableSort(s, Less(_, _)) ==
    LET Ins(x, t) ==
            LET n == Cardinality({j \in 1..Len(t) : ~Less(x, t[j])})
            IN SubSeq(t, 1, n) \o <<x>> \o SubSeq(t, n + 1, Len(t))
        F[i \in 0..Len(s)] == IF i = 0 THEN <<>> ELSE Ins(s[i], F[i-1])
    IN F[Len(s)]

\* the "seen" loop: keep the first annotation of each (type, start, end) key
DedupByKey(s) ==
    SelectIdx(s, LAMBDA i : \A j \in 1..(i-1) : Key(s[j]) # Key(s[i]))

extract_all_entities_nodedup(results) == StableSort(results, LessStartType)

extract_all_entities(results) == DedupByKey(StableSort(results, LessStartType))

ner_extract_entities(ents) == StableSort(ents, LessStart)

_spans_overlap_closed(a, b) == a.start_char <= b.end_char /\ b.start_char <= a.end_char

_spans_overlap(a, b) == a.start_char < b.end_char /\ b.start_char < a.end_char

\* the NER annotations appended to merged, in ner order
MergeKept(rule, ner) ==
    SelectIdx(ner, LAMBDA i :
        /\ \A j \in 1..Len(rule) : Key(rule[j]) # Key(ner[i])
        /\ \A j \in 1..(i-1) : Key(ner[j]) # Key(ner[i])
        /\ \A j \in 1..Len(rule) : ~_spans_overlap(ner[i], rule[j]))

_merge(rule, ner) == StableSort(rule \o MergeKept(rule, ner), LessStartType)


----------------------------------------------------------------------------
(* Document text                                                           *)
(* A document is the sequence of its paragraphs (what re.split on blank    *)
(* lines and indented continuations yields).  A paragraph starts with a    *)
(* section header line, with a clause header line, or with neither, and    *)
(* is a sequence of sentences given by their whitespace-token counts.      *)
(* hdr = <<family, captured>>: the pattern family that matches the line    *)
(* and its group 1, upper-cased.                                           *)

NoHeader == <<"NONE", "">>
NoClause == "NONE"

Paragraph(h, c, ss) == [hdr |-> h, clause |-> c, sents |-> ss]

\* characters per word, its trailing separator included
WordChars == 4

SumSeq(s) ==
    LET F[i \in 0..Len(s)] == IF i = 0 THEN 0 ELSE F[i-1] + s[i]
    IN F[Len(s)]

\* _word_count of a paragraph
ParaWC(p) == SumSeq(p.sents)

\* len() of a paragraph: words joined by single separators
ParaChars(p) == WordChars * ParaWC(p) - 1

\* offset of paragraph i in the stripped text; paragraphs are separated by "\n\n"
ParaStart(t, i) == SumSeq([j \in 1..(i-1) |-> ParaChars(t[j]) + 2])

\* len(text) of the stripped text
TextLen(t) == IF Len(t) = 0 THEN 0 ELSE ParaStart(t, Len(t)) + ParaChars(t[Len(t)])

----------------------------------------------------------------------------
(* SectionDetector                                                         *)

_SECTION_PATTERNS == <<"SECTION", "LETTER", "PART", "ARTICLE">>

Letters == {"A", "B", "C", "D", "E", "F", "G", "H", "I", "J", "K", "L", "M"}

_LETTER_TO_SECTION(letter) ==
    CASE letter = "A" -> "SECTION_A" [] letter = "B" -> "SECTION_B"
      [] letter = "C" -> "SECTION_C" [] letter = "D" -> "SECTION_D"
      [] letter = "E" -> "SECTION_E" [] letter = "F" -> "SECTION_F"
      [] letter = "G" -> "SECTION_G" [] letter = "H" -> "SECTION_H"
      [] letter = "I" -> "SECTION_I" [] letter = "J" -> "SECTION_J"
      [] letter = "K" -> "SECTION_K" [] letter = "L" -> "SECTION_L"
      [] letter = "M" -> "SECTION_M"

PartNumerals == {"I", "II", "III", "IV"}

_PART_MAP(numeral) ==
    CASE numeral = "I" -> "A" [] numeral = "II" -> "B"
      [] numeral = "III" -> "H" [] numeral = "IV" -> "K"

Digits == {"1", "2", "3"}

\* the section type detect gives a match from its captured group; "SKIP" is
\* the continue branch
SectionTypeOf(captured) ==
    IF captured \in Letters THEN _LETTER_TO_SECTION(captured)
    ELSE IF captured \in PartNumerals THEN _LETTER_TO_SECTION(_PART_MAP(captured))
    ELSE IF captured \in Digits THEN "OTHER"
    ELSE "SKIP"

\* raw: the matches of one pattern family in text order, as (type, start)
FamilyMatches(t, family) ==
    LET F[i \in 0..Len(t)] ==
            IF i = 0 THEN <<>>
            ELSE IF t[i].hdr[1] = family /\ SectionTypeOf(t[i].hdr[2]) # "SKIP"
                 THEN Append(F[i-1], [section_type |-> SectionTypeOf(t[i].hdr[2]),
                                      start_char |-> ParaStart(t, i)])
                 ELSE F[i-1]
    IN F[Len(t)]

\* raw: all pattern families, pattern by pattern
RawMatches(t) ==
    LET F[k \in 0..Len(_SECTION_PATTERNS)] ==
            IF k = 0 THEN <<>> ELSE F[k-1] \o FamilyMatches(t, _SECTION_PATTERNS[k])
    IN F[Len(_SECTION_PATTERNS)]

DedupByType_keep_all(raw) == raw

\* the seen_types loop: keep the first match of each section type
DedupByType(raw) ==
    SelectIdx(raw, LAMBDA i : \A j \in 1..(i-1) : raw[j].section_type # raw[i].section_type)

\* end_char: the next section's start, len(text) for the last
WithEnds(deduped, textlen) ==
    [i \in 1..Len(deduped) |->
        [section_type |-> deduped[i].section_type,
         start_char |-> deduped[i].start_char,
         end_char |-> IF i + 1 <= Len(deduped) THEN deduped[i+1].start_char ELSE textlen]]

detect_unsorted(t) == WithEnds(DedupByType(RawMatches(t)), TextLen(t))

detect(t) ==
    WithEnds(StableSort(DedupByType(StableSort(RawMatches(t), LessStart)), LessStart),
             TextLen(t))


----------------------------------------------------------------------------
(* ClauseChunker                                                           *)

_TARGET_TOKENS == 500
_MAX_TOKENS == 600
_OVERLAP_TOKENS == 50

\* A chunk's text is the join of its parts.  A part <<i, 0>> is paragraph i,
\* a part <<i, k>> with k > 0 is sentence k of paragraph i.
PartWC(t, u) == IF u[2] = 0 THEN ParaWC(t[u[1]]) ELSE t[u[1]].sents[u[2]]

PartsWC(t, parts) == SumSeq([i \in 1..Len(parts) |-> PartWC(t, parts[i])])

_make_chunk(t, parts, section_type, clause_number) ==
    [parts |-> parts,
     section_type |-> section_type,
     clause_number |-> clause_number,
     chunk_index |-> 0,
     word_count |-> PartsWC(t, parts),
     parent_clause |-> clause_number]

\* the overlap loop without the budget test: the last unit is always taken
OverlapParts_last_unit(t, parts) == <<parts[Len(parts)]>>

\* the overlap loop: parts taken from the end while the running count stays
\* within overlap_tokens
OverlapParts(t, parts) ==
    LET n == Len(parts)
        Fits(m) == \A k \in 1..m : PartsWC(t, SubSeq(parts, n - k + 1, n)) <= _OVERLAP_TOKENS
        m == CHOOSE m \in 0..n : Fits(m) /\ (m < n => ~Fits(m + 1))
    IN SubSeq(parts, n - m + 1, n)

\* the accumulator (chunks, current_parts, current_wc) the loops start from
EmptyAcc == [chunks |-> <<>>, current_parts |-> <<>>, current_wc |-> 0]

\* the flush after a loop: remaining parts become the last chunk
Flush(t, acc, section_type, clause_number) ==
    IF acc.current_parts # <<>>
    THEN Append(acc.chunks,
                _make_chunk(t, acc.current_parts, section_type, clause_number))
    ELSE acc.chunks

\* closing the current chunk and seeding the next one with the overlap
CloseChunk(t, prev, overlap_parts, unit, unit_wc, section_type, clause_number) ==
    [chunks |-> Append(prev.chunks,
                       _make_chunk(t, prev.current_parts, section_type, clause_number)),
     current_parts |-> Append(overlap_parts, unit),
     current_wc |-> PartsWC(t, overlap_parts) + unit_wc]

\* one iteration of the sentence loop of _force_split
_force_split_step(t, prev, sent, sent_wc, section_type, clause_number) ==
    IF prev.current_wc + sent_wc > _TARGET_TOKENS /\ prev.current_parts # <<>>
    THEN CloseChunk(t, prev, OverlapParts(t, prev.current_parts), sent, sent_wc,
                    section_type, clause_number)
    ELSE [chunks |-> prev.chunks,
          current_parts |-> Append(prev.current_parts, sent),
          current_wc |-> prev.current_wc + sent_wc]

\* F[k] is (chunks, current_parts, current_wc) after the k-th sentence
_force_split(t, i, section_type, clause_number) ==
    LET F[k \in 0..Len(t[i].sents)] ==
            IF k = 0 THEN EmptyAcc
            ELSE _force_split_step(t, F[k-1], <<i, k>>, PartWC(t, <<i, k>>),
                                   section_type, clause_number)
    IN Flush(t, F[Len(t[i].sents)], section_type, clause_number)

\* the paragraph loop without the flush before a force-split
_chunk_paragraphs_step_no_flush(t, prev, para, para_wc, section_type, clause_number) ==
    IF para_wc > _MAX_TOKENS
    THEN [chunks |-> prev.chunks \o _force_split(t, para[1], section_type, clause_number),
          current_parts |-> <<>>,
          current_wc |-> 0]
    ELSE IF prev.current_wc + para_wc > _TARGET_TOKENS /\ prev.current_parts # <<>>
    THEN CloseChunk(t, prev, OverlapParts(t, prev.current_parts), para, para_wc,
                    section_type, clause_number)
    ELSE [chunks |-> prev.chunks,
          current_parts |-> Append(prev.current_parts, para),
          current_wc |-> prev.current_wc + para_wc]

\* one iteration of the paragraph loop of _chunk_paragraphs
_chunk_paragraphs_step(t, prev, para, para_wc, section_type, clause_number) ==
    IF para_wc > _MAX_TOKENS
    THEN [chunks |-> Flush(t, prev, section_type, clause_number)
                     \o _force_split(t, para[1], section_type, clause_number),
          current_parts |-> <<>>,
          current_wc |-> 0]
    ELSE IF prev.current_wc + para_wc > _TARGET_TOKENS /\ prev.current_parts # <<>>
    THEN CloseChunk(t, prev, OverlapParts(t, prev.current_parts), para, para_wc,
                    section_type, clause_number)
    ELSE [chunks |-> prev.chunks,
          current_parts |-> Append(prev.current_parts, para),
          current_wc |-> prev.current_wc + para_wc]

\* idxs: the paragraphs of the text being chunked, as indices into t;
\* F[k] is (chunks, current_parts, current_wc) after the k-th paragraph
_chunk_paragraphs(t, idxs, section_type, clause_number) ==
    LET F[k \in 0..Len(idxs)] ==
            IF k = 0 THEN EmptyAcc
            ELSE _chunk_paragraphs_step(t, F[k-1], <<idxs[k], 0>>,
                                        PartWC(t, <<idxs[k], 0>>),
                                        section_type, clause_number)
    IN Flush(t, F[Len(idxs)], section_type, clause_number)

\* positions in idxs of the paragraphs that open with a clause header
ClausePositions(t, idxs) ==
    SelectIdx([k \in 1..Len(idxs) |-> k], LAMBDA k : t[idxs[k]].clause # NoClause)

\* one clause: a single chunk when it fits max_tokens, split otherwise
ClauseChunks(t, clause_text, clause_number) ==
    IF PartsWC(t, [k \in 1..Len(clause_text) |-> <<clause_text[k], 0>>]) <= _MAX_TOKENS
    THEN <<_make_chunk(t, [k \in 1..Len(clause_text) |-> <<clause_text[k], 0>>],
                       "SECTION_I", clause_number)>>
    ELSE _chunk_paragraphs(t, clause_text, "SECTION_I", clause_number)

\* the clause loop; pos: the positions of the clause headers in idxs
ClauseLoop(t, idxs, pos) ==
    LET F[m \in 0..Len(pos)] ==
            IF m = 0
            THEN _chunk_paragraphs(t, SubSeq(idxs, 1, pos[1] - 1), "SECTION_I", NoClause)
            ELSE F[m-1] \o
                 ClauseChunks(t,
                              SubSeq(idxs, pos[m],
                                     IF m + 1 <= Len(pos) THEN pos[m + 1] - 1
                                     ELSE Len(idxs)),
                              t[idxs[pos[m]]].clause)
    IN F[Len(pos)]

\* idxs: the paragraphs of the clauses section
_chunk_section_i(t, idxs) ==
    IF ClausePositions(t, idxs) = <<>>
    THEN _chunk_paragraphs(t, idxs, "SECTION_I", NoClause)
    ELSE ClauseLoop(t, idxs, ClausePositions(t, idxs))

\* text[section.start_char:section.end_char], as paragraph indices
SectionParas(t, section) ==
    SelectIdx([i \in 1..Len(t) |-> i], LAMBDA i :
        section.start_char <= ParaStart(t, i) /\ ParaStart(t, i) < section.end_char)

\* the enumerate loop that assigns chunk_index
Reindex(cs) == [i \in 1..Len(cs) |-> [cs[i] EXCEPT !.chunk_index = i - 1]]

chunk_document(t, secs) ==
    LET F[k \in 0..Len(secs)] ==
            IF k = 0 THEN <<>>
            ELSE F[k-1] \o
                 (IF secs[k].section_type = "SECTION_I"
                  THEN _chunk_section_i(t, SectionParas(t, secs[k]))
                  ELSE _chunk_paragraphs(t, SectionParas(t, secs[k]),
                                         secs[k].section_type, NoClause))
    IN IF secs = <<>>
       THEN _chunk_paragraphs(t, [i \in 1..Len(t) |-> i], "OTHER", NoClause)
       ELSE Reindex(F[Len(secs)])

\* DocumentProcessor.process: an empty (stripped) text has no paragraphs
process(t, document_id) ==
    IF Len(t) = 0 THEN <<>>
    ELSE LET cs == chunk_document(t, detect(t))
         IN [i \in 1..Len(cs) |-> cs[i] @@ [document_id |-> document_id]]


----------------------------------------------------------------------------
(* Documents with entity mentions                                          *)
(* A paragraph of a stored document also lists the entity mentions in its  *)
(* text: mention = [entity_type, entity_value, sent, off, tier, metadata,  *)
(* ctx], where sent/off locate the value inside the paragraph, tier tells  *)
(* whether the rule-based battery ("rule") or only the statistical model   *)
(* ("ner") finds it, metadata is the extractor's metadata dict, and ctx is *)
(* the set of keyword families that match in the +/-100 character window.  *)

None == "None"

SentChars(wc) == WordChars * wc - 1

\* offset of sentence k in its paragraph; sentences are separated by one character
SentStart(p, k) == SumSeq([j \in 1..(k-1) |-> SentChars(p.sents[j]) + 1])

MentionStart(t, i, m) == ParaStart(t, i) + SentStart(t[i], m.sent) + m.off

\* len(entity_value): one word
ValueChars == WordChars - 1

\* annotations of a statistical model that reports a score of 0.5
AnnotationOf_scored(t, i, m) ==
    [entity_type |-> m.entity_type,
     entity_value |-> m.entity_value,
     start_char |-> MentionStart(t, i, m),
     end_char |-> MentionStart(t, i, m) + ValueChars,
     confidence |-> IF m.tier = "rule" THEN 100 ELSE 50,
     metadata |-> m.metadata,
     ctx |-> m.ctx]

AnnotationOf(t, i, m) ==
    [entity_type |-> m.entity_type,
     entity_value |-> m.entity_value,
     start_char |-> MentionStart(t, i, m),
     end_char |-> MentionStart(t, i, m) + ValueChars,
     confidence |-> IF m.tier = "rule" THEN 100 ELSE 0,
     metadata |-> m.metadata,
     ctx |-> m.ctx]

\* the mentions of tier tr, in text order
MentionAnnotations(t, tr) ==
    LET PerPara(i) ==
            LET ms == t[i].mentions
            IN SelectIdx([k \in 1..Len(ms) |-> AnnotationOf(t, i, ms[k])],
                         LAMBDA k : ms[k].tier = tr)
        F[i \in 0..Len(t)] == IF i = 0 THEN <<>> ELSE F[i-1] \o PerPara(i)
    IN F[Len(t)]

\* _ALL_EXTRACTORS, restricted to the entity types of the stored documents
_ALL_EXTRACTORS == <<"FAR_CLAUSE", "CONTRACT_NUMBER", "DOLLAR_AMOUNT", "DATE", "SECURITY_LEVEL">>

\* all_results: extractor by extractor, each in text order
BatteryResults(t) ==
    LET anns == MentionAnnotations(t, "rule")
        F[x \in 0..Len(_ALL_EXTRACTORS)] ==
            IF x = 0 THEN <<>>
            ELSE F[x-1] \o SelectIdx(anns, LAMBDA k : anns[k].entity_type = _ALL_EXTRACTORS[x])
    IN F[Len(_ALL_EXTRACTORS)]

\* CombinedExtractor.extract
extract(t) ==
    _merge(extract_all_entities(BatteryResults(t)),
           ner_extract_entities(MentionAnnotations(t, "ner")))

----------------------------------------------------------------------------
(* map_entities_to_metadata                                                *)

ContractMetadata ==
    [contract_number |-> None, ceiling_value |-> None, funded_value |-> None,
     pop_start |-> None, pop_end |-> None, naics_code |-> None, psc_code |-> None,
     security_level |-> None, cage_code |-> None, uei_number |-> None,
     contracting_officer_name |-> None, far_clauses |-> <<>>, dfars_clauses |-> <<>>]

\* dict.get(key, default)
Get(d, key, default) == IF key \in DOMAIN d THEN d[key] ELSE default

\* entity_value.upper().replace(" ", "_") on the security markings used here
UpperUnderscore(v) ==
    CASE v = "Top Secret" -> "TOP_SECRET"
      [] v = "Secret" -> "SECRET"
      [] OTHER -> v

\* truth value of a str | None
Truthy(v) == v # None /\ v # ""

\* the entity loop with every single-valued field taking the last entity
MapEntity_last_wins(st, ent) ==
    IF ent.entity_type = "CONTRACT_NUMBER"
    THEN [st EXCEPT !.meta.contract_number = ent.entity_value]
    ELSE IF ent.entity_type = "NAICS_CODE"
    THEN [st EXCEPT !.meta.naics_code = ent.entity_value]
    ELSE IF ent.entity_type = "PSC_CODE"
    THEN [st EXCEPT !.meta.psc_code = ent.entity_value]
    ELSE IF ent.entity_type = "CAGE_CODE"
    THEN [st EXCEPT !.meta.cage_code = ent.entity_value]
    ELSE IF ent.entity_type = "UEI_NUMBER"
    THEN [st EXCEPT !.meta.uei_number = ent.entity_value]
    ELSE IF ent.entity_type = "SECURITY_LEVEL"
    THEN [st EXCEPT !.meta.security_level = UpperUnderscore(ent.entity_value)]
    ELSE IF ent.entity_type = "FAR_CLAUSE"
    THEN [st EXCEPT !.meta.far_clauses = Append(@, ent.entity_value)]
    ELSE IF ent.entity_type = "DFARS_CLAUSE"
    THEN [st EXCEPT !.meta.dfars_clauses = Append(@, ent.entity_value)]
    ELSE IF ent.entity_type = "CONTRACTING_OFFICER"
    THEN [st EXCEPT !.meta.contracting_officer_name = ent.entity_value]
    ELSE IF ent.entity_type = "DOLLAR_AMOUNT"
    THEN [st EXCEPT !.dollar_entities = Append(@, ent)]
    ELSE IF ent.entity_type = "DATE"
    THEN [st EXCEPT !.date_entities = Append(@, ent)]
    ELSE IF ent.entity_type = "POP_RANGE"
    THEN [st EXCEPT
             !.meta.pop_start =
                 IF Truthy(Get(ent.metadata, "start_date", None)) /\ @ = None
                 THEN ent.metadata["start_date"] ELSE @,
             !.meta.pop_end =
                 IF Truthy(Get(ent.metadata, "end_date", None)) /\ @ = None
                 THEN ent.metadata["end_date"] ELSE @]
    ELSE st

\* one iteration of the entity loop; st: (meta, dollar_entities, date_entities)
MapEntity(st, ent) ==
    IF ent.entity_type = "CONTRACT_NUMBER" /\ st.meta.contract_number = None
    THEN [st EXCEPT !.meta.contract_number = ent.entity_value]
    ELSE IF ent.entity_type = "NAICS_CODE" /\ st.meta.naics_code = None
    THEN [st EXCEPT !.meta.naics_code = ent.entity_value]
    ELSE IF ent.entity_type = "PSC_CODE" /\ st.meta.psc_code = None
    THEN [st EXCEPT !.meta.psc_code = ent.entity_value]
    ELSE IF ent.entity_type = "CAGE_CODE" /\ st.meta.cage_code = None
    THEN [st EXCEPT !.meta.cage_code = ent.entity_value]
    ELSE IF ent.entity_type = "UEI_NUMBER" /\ st.meta.uei_number = None
    THEN [st EXCEPT !.meta.uei_number = ent.entity_value]
    ELSE IF ent.entity_type = "SECURITY_LEVEL" /\ st.meta.security_level = None
    THEN [st EXCEPT !.meta.security_level = UpperUnderscore(ent.entity_value)]
    ELSE IF ent.entity_type = "FAR_CLAUSE"
    THEN [st EXCEPT !.meta.far_clauses = Append(@, ent.entity_value)]
    ELSE IF ent.entity_type = "DFARS_CLAUSE"
    THEN [st EXCEPT !.meta.dfars_clauses = Append(@, ent.entity_value)]
    ELSE IF ent.entity_type = "CONTRACTING_OFFICER" /\ st.meta.contracting_officer_name = None
    THEN [st EXCEPT !.meta.contracting_officer_name = ent.entity_value]
    ELSE IF ent.entity_type = "DOLLAR_AMOUNT"
    THEN [st EXCEPT !.dollar_entities = Append(@, ent)]
    ELSE IF ent.entity_type = "DATE"
    THEN [st EXCEPT !.date_entities = Append(@, ent)]
    ELSE IF ent.entity_type = "POP_RANGE"
    THEN [st EXCEPT
             !.meta.pop_start =
                 IF Truthy(Get(ent.metadata, "start_date", None)) /\ @ = None
                 THEN ent.metadata["start_date"] ELSE @,
             !.meta.pop_end =
                 IF Truthy(Get(ent.metadata, "end_date", None)) /\ @ = None
                 THEN ent.metadata["end_date"] ELSE @]
    ELSE st

\* the lookup under the key extract_dollar_amounts writes
NormalizedOrValue_normalized_value(dent) ==
    Get(dent.metadata, "normalized_value", dent.entity_value)

\* dent.metadata.get("normalized", dent.entity_value)
NormalizedOrValue(dent) == Get(dent.metadata, "normalized", dent.entity_value)

\* one iteration of the dollar loop; dent.ctx holds the keyword families
\* found in the window of _get_context
MapDollar(meta, dent) ==
    IF meta.ceiling_value = None /\ "ceiling" \in dent.ctx
    THEN [meta EXCEPT !.ceiling_value = NormalizedOrValue(dent)]
    ELSE IF meta.funded_value = None /\ "funded" \in dent.ctx
    THEN [meta EXCEPT !.funded_value = NormalizedOrValue(dent)]
    ELSE IF meta.ceiling_value = None
    THEN [meta EXCEPT !.ceiling_value = NormalizedOrValue(dent)]
    ELSE meta

\* the date loop without the tests for a field that is already set
MapDate_overwrites(meta, dent) ==
    IF "pop_start" \in dent.ctx
    THEN [meta EXCEPT !.pop_start = Get(dent.metadata, "iso_date", dent.entity_value)]
    ELSE IF "pop_end" \in dent.ctx
    THEN [meta EXCEPT !.pop_end = Get(dent.metadata, "iso_date", dent.entity_value)]
    ELSE meta

\* one iteration of the date loop
MapDate(meta, dent) ==
    IF meta.pop_start = None /\ "pop_start" \in dent.ctx
    THEN [meta EXCEPT !.pop_start = Get(dent.metadata, "iso_date", dent.entity_value)]
    ELSE IF meta.pop_end = None /\ "pop_end" \in dent.ctx
    THEN [meta EXCEPT !.pop_end = Get(dent.metadata, "iso_date", dent.entity_value)]
    ELSE meta

\* the dollar loop, then the date loop, on the state the entity loop left
Disambiguate(first) ==
    LET G[i \in 0..Len(first.dollar_entities)] ==
            IF i = 0 THEN first.meta ELSE MapDollar(G[i-1], first.dollar_entities[i])
        H[i \in 0..Len(first.date_entities)] ==
            IF i = 0 THEN G[Len(first.dollar_entities)]
            ELSE MapDate(H[i-1], first.date_entities[i])
    IN H[Len(first.date_entities)]

map_entities_to_metadata(entities) ==
    LET F[i \in 0..Len(entities)] ==
            IF i = 0
            THEN [meta |-> ContractMetadata, dollar_entities |-> <<>>, date_entities |-> <<>>]
            ELSE MapEntity(F[i-1], entities[i])
    IN Disambiguate(F[Len(entities)])

----------------------------------------------------------------------------
(* check_quality                                                           *)

QualityIssue(severity, code) == [severity |-> severity, code |-> code]

\* a rule that sets the reason without raising the review flag
Fire_no_flag(report, fires, severity, code, reason) ==
    IF ~fires THEN report
    ELSE [report EXCEPT
             !.issues = Append(@, QualityIssue(severity, code)),
             !.review_reasons = IF reason # None THEN Append(@, reason) ELSE @]

\* appends rule's issue (and its review reason, if it triggers review) when it fires
Fire(report, fires, severity, code, reason) ==
    IF ~fires THEN report
    ELSE [report EXCEPT
             !.issues = Append(@, QualityIssue(severity, code)),
             !.needs_human_review = IF reason # None THEN TRUE ELSE @,
             !.review_reasons = IF reason # None THEN Append(@, reason) ELSE @]

\* set(by_type.get(etype, []))
ValuesOfType(entities, etype) ==
    {entities[i].entity_value : i \in {k \in 1..Len(entities) : entities[k].entity_type = etype}}

_check_conflicts(entities, report) ==
    Fire(Fire(report,
              Cardinality(ValuesOfType(entities, "CONTRACT_NUMBER")) > 1,
              "ERROR", "CONFLICTING_CONTRACT_NUMBERS", "Conflicting contract numbers"),
         Cardinality(ValuesOfType(entities, "SECURITY_LEVEL")) > 1,
         "WARNING", "CONFLICTING_SECURITY_LEVELS", None)

\* sum(1 for c in chunk_entity_counts if c == 0)
EmptyChunks(chunk_entity_counts) ==
    Cardinality({i \in 1..Len(chunk_entity_counts) : chunk_entity_counts[i] = 0})

\* the rules before _check_conflicts
MissingAndLowConfidence(metadata, entities, chunk_count) ==
    LET r0 == [issues |-> <<>>, needs_human_review |-> FALSE, review_reasons |-> <<>>,
               entity_count |-> Len(entities), chunk_count |-> chunk_count]
        r1 == Fire(r0, metadata.contract_number = None,
                   "ERROR", "MISSING_CONTRACT_NUMBER", "Missing contract number")
        r2 == Fire(r1, metadata.ceiling_value = None,
                   "WARNING", "MISSING_CEILING_VALUE", None)
        r3 == Fire(r2, metadata.pop_start = None \/ metadata.pop_end = None,
                   "WARNING", "MISSING_POP_DATES", None)
    IN Fire(r3, \E i \in 1..Len(entities) :
                   0 < entities[i].confidence /\ entities[i].confidence < 60,
            "WARNING", "LOW_CONFIDENCE_ENTITIES", None)

\* the empty-chunk rule
ManyEmptyChunks(report, chunk_count, chunk_entity_counts) ==
    Fire(report,
         /\ chunk_entity_counts # NoCounts
         /\ EmptyChunks(chunk_entity_counts) > 0
         /\ chunk_count > 0
         /\ 2 * EmptyChunks(chunk_entity_counts) > chunk_count,
         "WARNING", "MANY_EMPTY_CHUNKS",
         "Many chunks without entities - possible extraction issue")

\* check_quality that stops at the first rule that asked for review
check_quality_first_error_only(metadata, entities, chunk_count, chunk_entity_counts) ==
    LET r4 == MissingAndLowConfidence(metadata, entities, chunk_count)
    IN IF r4.needs_human_review THEN r4
       ELSE Fire(ManyEmptyChunks(_check_conflicts(entities, r4),
                                 chunk_count, chunk_entity_counts),
                 Len(entities) = 0,
                 "ERROR", "NO_ENTITIES_EXTRACTED", "Zero entities extracted")

check_quality(metadata, entities, chunk_count, chunk_entity_counts) ==
    Fire(ManyEmptyChunks(_check_conflicts(entities,
                                          MissingAndLowConfidence(metadata, entities,
                                                                  chunk_count)),
                         chunk_count, chunk_entity_counts),
         Len(entities) = 0,
         "ERROR", "NO_ENTITIES_EXTRACTED", "Zero entities extracted")

----------------------------------------------------------------------------
(* _assign_entities_to_chunks                                              *)

\* offset of part k in the chunk text: paragraphs are joined by "\n\n",
\* sentences of a force-split paragraph by " "
PartChars(t, u) == IF u[2] = 0 THEN ParaChars(t[u[1]]) ELSE SentChars(t[u[1]].sents[u[2]])

PartStart(t, parts, k) ==
    SumSeq([j \in 1..(k-1) |-> PartChars(t, parts[j]) + (IF parts[j][2] = 0 THEN 2 ELSE 1)])

\* offsets in the chunk text at which value occurs
OccurrencesIn(t, chunk, value) ==
    UNION {
        LET u == chunk.parts[k]
            p == t[u[1]]
        IN {PartStart(t, chunk.parts, k)
              + (IF u[2] = 0 THEN SentStart(p, p.mentions[x].sent) ELSE 0)
              + p.mentions[x].off :
            x \in {y \in 1..Len(p.mentions) :
                     /\ p.mentions[y].entity_value = value
                     /\ (u[2] = 0 \/ u[2] = p.mentions[y].sent)}}
        : k \in 1..Len(chunk.parts)}

Min(S) == CHOOSE x \in S : \A y \in S : x <= y

\* _assign_entities_to_chunks without the break after the first matching chunk
_assign_entities_to_chunks_no_break(entities, cs, t) ==
    LET Local(ent, i) ==
            LET local_start == Min(OccurrencesIn(t, cs[i], ent.entity_value))
            IN [entity_type |-> ent.entity_type,
                entity_value |-> ent.entity_value,
                start_char |-> local_start,
                end_char |-> local_start + ValueChars,
                confidence |-> ent.confidence,
                metadata |-> ent.metadata]
    IN [i \in 1..Len(cs) |->
          LET mine == SelectIdx(entities, LAMBDA k :
                          OccurrencesIn(t, cs[i], entities[k].entity_value) # {})
          IN [k \in 1..Len(mine) |-> Local(mine[k], i)]]

\* result[i]: the chunk-local copies of the entities assigned to chunk i
_assign_entities_to_chunks(entities, cs, t) ==
    LET Holder(ent) ==
            LET holders == {i \in 1..Len(cs) : OccurrencesIn(t, cs[i], ent.entity_value) # {}}
            IN IF holders = {} THEN 0 ELSE Min(holders)
        Local(ent, i) ==
            LET local_start == Min(OccurrencesIn(t, cs[i], ent.entity_value))
            IN [entity_type |-> ent.entity_type,
                entity_value |-> ent.entity_value,
                start_char |-> local_start,
                end_char |-> local_start + ValueChars,
                confidence |-> ent.confidence,
                metadata |-> ent.metadata]
    IN [i \in 1..Len(cs) |->
          LET mine == SelectIdx(entities, LAMBDA k : Holder(entities[k]) = i)
          IN [k \in 1..Len(mine) |-> Local(mine[k], i)]]


----------------------------------------------------------------------------
(* InMemoryDbClient                                                        *)

\* _meta_to_dict without the default for a missing contract number
_meta_to_dict_no_default(metadata, s3_key) ==
    [contract_number |-> metadata.contract_number,
     ceiling_value |-> metadata.ceiling_value,
     funded_value |-> metadata.funded_value,
     pop_start |-> metadata.pop_start,
     pop_end |-> metadata.pop_end,
     naics_code |-> metadata.naics_code,
     psc_code |-> metadata.psc_code,
     security_level |-> metadata.security_level,
     cage_code |-> metadata.cage_code,
     s3_document_key |-> s3_key]

_meta_to_dict(metadata, s3_key) ==
    [contract_number |-> IF Truthy(metadata.contract_number)
                         THEN metadata.contract_number ELSE "UNKNOWN",
     ceiling_value |-> metadata.ceiling_value,
     funded_value |-> metadata.funded_value,
     pop_start |-> metadata.pop_start,
     pop_end |-> metadata.pop_end,
     naics_code |-> metadata.naics_code,
     psc_code |-> metadata.psc_code,
     security_level |-> metadata.security_level,
     cage_code |-> metadata.cage_code,
     s3_document_key |-> s3_key]

\* index of the first contract with this contract_number, 0 if there is none
FindContract(cs, contract_number) ==
    LET hits == {i \in 1..Len(cs) : cs[i].contract_number = contract_number}
    IN IF hits = {} THEN 0 ELSE CHOOSE i \in hits : \A j \in hits : i <= j

\* upsert_contract without the lookup of the contract number
upsert_contract_always_insert(cs, metadata, s3_key, uuid) ==
    Append(cs, _meta_to_dict(metadata, s3_key) @@ [id |-> uuid])

\* the contracts dict after upsert_contract; uuid is the id a new record gets
upsert_contract(cs, metadata, s3_key, uuid) ==
    LET d == _meta_to_dict(metadata, s3_key)
        i == FindContract(cs, d.contract_number)
    IN IF i # 0
       THEN [cs EXCEPT ![i] = d @@ [id |-> cs[i].id]]
       ELSE Append(cs, d @@ [id |-> uuid])

\* the contract_id upsert_contract returns
upsert_contract_id(cs, metadata, s3_key, uuid) ==
    LET i == FindContract(cs, _meta_to_dict(metadata, s3_key).contract_number)
    IN IF i # 0 THEN cs[i].id ELSE uuid

\* store_chunks with ids derived from the chunk index instead of fresh ones
store_chunks_index_ids(contract_id, s3_key, embedded, uuid) ==
    [k \in 1..Len(embedded) |->
        [id |-> k,
         contract_id |-> contract_id,
         document_s3_key |-> s3_key,
         chunk_index |-> embedded[k].chunk_index,
         section_type |-> embedded[k].section_type,
         clause_number |-> embedded[k].clause_number,
         chunk_text |-> embedded[k].parts,
         embedding |-> embedded[k].embedding]]

\* the records store_chunks adds; chunk k gets the id uuid + k - 1
store_chunks(contract_id, s3_key, embedded, uuid) ==
    [k \in 1..Len(embedded) |->
        [id |-> uuid + k - 1,
         contract_id |-> contract_id,
         document_s3_key |-> s3_key,
         chunk_index |-> embedded[k].chunk_index,
         section_type |-> embedded[k].section_type,
         clause_number |-> embedded[k].clause_number,
         chunk_text |-> embedded[k].parts,
         embedding |-> embedded[k].embedding]]

\* the records store_entity_annotations adds: zip(chunk_ids, entities_per_chunk)
\* store_entity_annotations that stores the first entity of each chunk only
store_entity_annotations_first_only(chunk_ids, entities_per_chunk, model_version) ==
    LET n == IF Len(chunk_ids) < Len(entities_per_chunk)
             THEN Len(chunk_ids) ELSE Len(entities_per_chunk)
        Rows(k) ==
            [x \in 1..(IF entities_per_chunk[k] = <<>> THEN 0 ELSE 1) |->
                LET ent == entities_per_chunk[k][x]
                IN [chunk_id |-> chunk_ids[k],
                    entity_type |-> ent.entity_type,
                    entity_value |-> ent.entity_value,
                    start_char |-> ent.start_char,
                    end_char |-> ent.end_char,
                    confidence |-> ent.confidence,
                    model_version |-> model_version]]
        F[k \in 0..n] == IF k = 0 THEN <<>> ELSE F[k-1] \o Rows(k)
    IN F[n]

store_entity_annotations(chunk_ids, entities_per_chunk, model_version) ==
    LET n == IF Len(chunk_ids) < Len(entities_per_chunk)
             THEN Len(chunk_ids) ELSE Len(entities_per_chunk)
        Rows(k) ==
            [x \in 1..Len(entities_per_chunk[k]) |->
                LET ent == entities_per_chunk[k][x]
                IN [chunk_id |-> chunk_ids[k],
                    entity_type |-> ent.entity_type,
                    entity_value |-> ent.entity_value,
                    start_char |-> ent.start_char,
                    end_char |-> ent.end_char,
                    confidence |-> ent.confidence,
                    model_version |-> model_version]]
        F[k \in 0..n] == IF k = 0 THEN <<>> ELSE F[k-1] \o Rows(k)
    IN F[n]

\* the record log_agent_execution appends
LogRecord(task_id, status, s3_key, document_type, output_summary, error_details) ==
    [agent_type |-> "ingestion_pipeline",
     task_id |-> task_id,
     status |-> status,
     input_summary |-> [s3_key |-> s3_key, document_type |-> document_type],
     output_summary |-> output_summary,
     error_details |-> error_details]

----------------------------------------------------------------------------
(* The object store                                                        *)

Mention(etype, value, sent, off, tier, metadata, ctx) ==
    [entity_type |-> etype, entity_value |-> value, sent |-> sent, off |-> off,
     tier |-> tier, metadata |-> metadata, ctx |-> ctx]

DocParagraph(h, c, ss, ms) == [hdr |-> h, clause |-> c, sents |-> ss, mentions |-> ms]

\* a contract with a dated title line above sections A and I, a contract
\* number, a ceiling amount, a clause, and a contracting officer only the
\* statistical model finds
ContractDocx ==
    [format |-> "docx",
     text |-> <<
        DocParagraph(NoHeader, NoClause, <<50>>,
            <<Mention("DATE", "2024-03-15", 1, 8, "rule",
                      [source |-> "rule", iso_date |-> "2024-03-15"], {})>>),
        DocParagraph(<<"SECTION", "A">>, NoClause, <<50>>,
            <<Mention("CONTRACT_NUMBER", "FA8726-24-C-0042", 1, 8, "rule",
                      [source |-> "rule"], {}),
              Mention("DOLLAR_AMOUNT", "$5M", 1, 40, "rule",
                      [source |-> "rule", normalized_value |-> "5000000.0"], {"ceiling"}),
              Mention("CONTRACTING_OFFICER", "Smith", 1, 80, "ner",
                      [source |-> "ner_model"], {})>>),
        DocParagraph(<<"SECTION", "I">>, NoClause, <<50>>, <<>>),
        DocParagraph(NoHeader, "52.202-1", <<50>>,
            <<Mention("FAR_CLAUSE", "52.202-1", 1, 0, "rule",
                      [source |-> "rule", clause_base |-> "52.202-1"], {})>>)>>]

\* a memo without section headers and without a contract number, long enough
\* for two chunks
MemoPdf ==
    [format |-> "pdf",
     text |-> <<
        DocParagraph(NoHeader, NoClause, <<300>>,
            <<Mention("DATE", "2024-01-01", 1, 16, "rule",
                      [source |-> "rule", iso_date |-> "2024-01-01"], {"pop_start"})>>),
        DocParagraph(NoHeader, NoClause, <<300>>, <<>>)>>]

\* a document whose paragraphs are all empty
BlankDocx == [format |-> "docx", text |-> <<>>]

Keys == {"contract.docx", "memo.pdf", "blank.docx"}

\* a letter without section headers and without a contract number that
\* names a funded amount and a ceiling amount
LetterPdf ==
    [format |-> "pdf",
     text |-> <<
        DocParagraph(NoHeader, NoClause, <<50>>,
            <<Mention("DOLLAR_AMOUNT", "$2M", 1, 16, "rule",
                      [source |-> "rule", normalized_value |-> "2000000.0"], {"funded"}),
              Mention("DOLLAR_AMOUNT", "$9M", 1, 120, "rule",
                      [source |-> "rule", normalized_value |-> "9000000.0"], {"ceiling"})>>)>>]

Objects(key) ==
    CASE key = "contract.docx" -> ContractDocx
      [] key = "memo.pdf" -> MemoPdf
      [] key = "blank.docx" -> BlankDocx
      [] key = "letter.pdf" -> LetterPdf

\* document-type tokens a caller passes
DocumentTypes == {"docx", "pdf", "txt"}

----------------------------------------------------------------------------
(* SpecChunk: a document is written paragraph by paragraph, then           *)
(* DocumentProcessor.process runs on it.                                   *)

\* bounds of the chunking model
MaxParas == 3       \* paragraphs per document
MaxSents == 2       \* sentences per paragraph

\* whitespace-token counts a sentence may have
SentenceWCs == {50, 300, 600}

SentenceLists ==
    UNION {[1..n -> SentenceWCs] : n \in 1..MaxSents}

ClauseNumbers == {"52.202-1", "252.204-7012"}

\* a sentence of more than max_tokens words
LongSentence == _MAX_TOKENS + 100

\* header lines of the documents of SpecChunk
ChunkHeaders == {<<"SECTION", "A">>, <<"SECTION", "I">>}

ChunkParagraphs ==
    {Paragraph(NoHeader, NoClause, ss) : ss \in SentenceLists}
    \cup {Paragraph(h, NoClause, <<50>>) : h \in ChunkHeaders}
    \cup {Paragraph(NoHeader, c, ss) :
            c \in ClauseNumbers, ss \in {<<50>>, <<300, 600>>, <<LongSentence>>}}

WriteParagraph ==
    /\ cphase = "input"
    /\ Len(text) < MaxParas
    /\ \E p \in ChunkParagraphs : text' = Append(text, p)
    /\ UNCHANGED <<sections, chunks, cphase>>
    /\ UNCHANGED <<mvars, dbvars, pvars, fvars>>

Process ==
    /\ cphase = "input"
    /\ sections' = detect(text)
    /\ chunks' = process(text, "")
    /\ cphase' = "done"
    /\ UNCHANGED text
    /\ UNCHANGED <<mvars, dbvars, pvars, fvars>>

InitChunk == MergeIdle /\ ChunkIdle /\ PipelineUnused /\ FunctionsIdle

NextChunk == WriteParagraph \/ Process

SpecChunk == InitChunk /\ [][NextChunk]_vars

----------------------------------------------------------------------------
(* SpecMerge: the extractor battery and the model return annotation lists, *)
(* then CombinedExtractor.extract runs.                                    *)

ExtractorReturns ==
    /\ mphase = "input"
    /\ Len(all_results) + Len(ner_results) < MaxAnnotations
    /\ \E a \in RuleAnnotations : all_results' = Append(all_results, a)
    /\ UNCHANGED <<ner_results, rule_results, merged, mphase>>
    /\ UNCHANGED <<cvars, dbvars, pvars, fvars>>

NerReturns ==
    /\ mphase = "input"
    /\ Len(all_results) + Len(ner_results) < MaxAnnotations
    /\ \E a \in NerAnnotations : ner_results' = Append(ner_results, a)
    /\ UNCHANGED <<all_results, rule_results, merged, mphase>>
    /\ UNCHANGED <<cvars, dbvars, pvars, fvars>>

CombinedExtract ==
    /\ mphase = "input"
    /\ rule_results' = extract_all_entities(all_results)
    /\ merged' = _merge(extract_all_entities(all_results), ner_extract_entities(ner_results))
    /\ mphase' = "done"
    /\ UNCHANGED <<all_results, ner_results>>
    /\ UNCHANGED <<cvars, dbvars, pvars, fvars>>

InitMerge == MergeIdle /\ ChunkIdle /\ PipelineUnused /\ FunctionsIdle

NextMerge == ExtractorReturns \/ NerReturns \/ CombinedExtract

SpecMerge == InitMerge /\ [][NextMerge]_vars


----------------------------------------------------------------------------
(* SpecDetect: a document with header lines of all four pattern families   *)
(* is written paragraph by paragraph, then detection and chunking run.     *)

\* bound of the detection model
MaxHeaderParas == 3     \* paragraphs per document

\* header lines a document may contain: "SECTION X", "X. TITLE", "PART n"
\* (PART V matches the pattern but maps to no section) and "ARTICLE n"
DetectHeaders ==
    {<<"SECTION", "A">>, <<"SECTION", "B">>, <<"SECTION", "I">>, <<"LETTER", "A">>,
     <<"PART", "I">>, <<"PART", "II">>, <<"PART", "V">>,
     <<"ARTICLE", "1">>, <<"ARTICLE", "2">>}

DetectParagraphs ==
    {Paragraph(h, NoClause, <<50>>) : h \in DetectHeaders \cup {NoHeader}}
    \cup {Paragraph(NoHeader, NoClause, <<300, 600>>)}

WriteHeaderParagraph ==
    /\ cphase = "input"
    /\ Len(text) < MaxHeaderParas
    /\ \E p \in DetectParagraphs : text' = Append(text, p)
    /\ UNCHANGED <<sections, chunks, cphase>>
    /\ UNCHANGED <<mvars, dbvars, pvars, fvars>>

InitDetect == MergeIdle /\ ChunkIdle /\ PipelineUnused /\ FunctionsIdle

NextDetect == WriteHeaderParagraph \/ Process

SpecDetect == InitDetect /\ [][NextDetect]_vars


----------------------------------------------------------------------------
(* IngestionPipeline.ingest                                                *)
(* One action per stage.  A stage that calls a collaborator (object fetch, *)
(* document parser, statistical model, embedding service, the three        *)
(* persistence operations) either returns or raises; a raise moves the     *)
(* call to its except clause.  log_agent_execution is the in-memory        *)
(* client's, which appends and returns.                                    *)

\* bound of the pipeline model
MaxRuns == 2        \* ingest calls on one pipeline and one DbClient

_model_version == "v0.1"

Raise(description) ==
    /\ run' = [run EXCEPT !.exc = description]
    /\ pc' = "except"

\* ingest is called: task_id, then the RUNNING audit entry
Ingest ==
    /\ pc \in {"idle", "returned", "raised"}
    /\ runs < MaxRuns
    /\ \E key \in Keys, dtype \in DocumentTypes :
          /\ run' = [NoRun EXCEPT !.s3_key = key, !.document_type = dtype,
                                  !.task_id = next_uuid]
          /\ audit_logs' = Append(audit_logs,
                                  LogRecord(next_uuid, "RUNNING", key, dtype, None, None))
    /\ next_uuid' = next_uuid + 1
    /\ calls' = <<"log_agent_execution">>
    /\ before' = <<contracts, db_chunks, annotations>>
    /\ runs' = runs + 1
    /\ pc' = "fetch"
    /\ UNCHANGED <<contracts, db_chunks, annotations, _use_ner, _extractor, model_present>>
    /\ UNCHANGED <<mvars, cvars, fvars>>

\* 1. self.s3.get_object(...)["Body"].read()
Fetch ==
    /\ pc = "fetch"
    /\ calls' = Append(calls, "get_object")
    /\ \/ /\ run' = [run EXCEPT !.content = run.s3_key]
          /\ pc' = "extract_text"
       \/ Raise("get_object failed")
    /\ UNCHANGED <<dbvars, _use_ner, _extractor, model_present, before, runs>>
    /\ UNCHANGED <<mvars, cvars, fvars>>

ExtractText_no_empty_check ==
    /\ pc = "extract_text"
    /\ IF run.document_type \notin {"docx", "pdf"}
       THEN /\ Raise("Unsupported document type")
            /\ UNCHANGED calls
       ELSE /\ calls' = Append(calls, "extract_text")
            /\ IF Objects(run.content).format # run.document_type
               THEN Raise("document parser failed")
               ELSE /\ run' = [run EXCEPT !.text = Objects(run.content).text]
                    /\ pc' = "extract_entities"
    /\ UNCHANGED <<dbvars, _use_ner, _extractor, model_present, before, runs>>
    /\ UNCHANGED <<mvars, cvars, fvars>>

\* 2. extract_text_from_docx / extract_text_from_pdf, the unsupported-type
\* branch and the empty-text check; a parser raises on content of the other format
ExtractText ==
    /\ pc = "extract_text"
    /\ IF run.document_type \notin {"docx", "pdf"}
       THEN /\ Raise("Unsupported document type")
            /\ UNCHANGED calls
       ELSE /\ calls' = Append(calls, "extract_text")
            /\ IF Objects(run.content).format # run.document_type
               THEN Raise("document parser failed")
               ELSE IF Objects(run.content).text = <<>>
               THEN Raise("Document produced empty text after extraction")
               ELSE /\ run' = [run EXCEPT !.text = Objects(run.content).text]
                    /\ pc' = "extract_entities"
    /\ UNCHANGED <<dbvars, _use_ner, _extractor, model_present, before, runs>>
    /\ UNCHANGED <<mvars, cvars, fvars>>

\* ExtractEntities with a constructor failure that is not caught
ExtractEntities_raise_when_missing ==
    /\ pc = "extract_entities"
    /\ LET construct == _use_ner /\ _extractor = None
           missing == construct /\ ~model_present
           constructed == IF construct THEN <<"CombinedExtractor">> ELSE <<>>
       IN /\ _extractor' = IF construct /\ model_present THEN "CombinedExtractor" ELSE _extractor
          /\ UNCHANGED _use_ner
          /\ IF missing
             THEN /\ calls' = calls \o constructed
                  /\ Raise("NER model not found")
             ELSE IF _use_ner
             THEN /\ calls' = (calls \o constructed) \o <<"extractor.extract">>
                  /\ \/ /\ run' = [run EXCEPT !.entities = extract(run.text)]
                        /\ pc' = "chunk"
                     \/ Raise("NER model failed")
             ELSE /\ calls' = (calls \o constructed) \o <<"extract_all_entities">>
                  /\ run' = [run EXCEPT !.entities =
                                extract_all_entities(BatteryResults(run.text))]
                  /\ pc' = "chunk"
    /\ UNCHANGED <<dbvars, model_present, before, runs>>
    /\ UNCHANGED <<mvars, cvars, fvars>>

\* 3. the extractor property (it constructs the CombinedExtractor on first
\* use and clears _use_ner when the model is not found), then
\* extractor.extract or extract_all_entities
ExtractEntities ==
    /\ pc = "extract_entities"
    /\ LET construct == _use_ner /\ _extractor = None
           missing == construct /\ ~model_present
           use_combined == _use_ner /\ ~missing
           constructed == IF construct THEN <<"CombinedExtractor">> ELSE <<>>
       IN /\ _extractor' = IF construct /\ model_present THEN "CombinedExtractor" ELSE _extractor
          /\ _use_ner' = IF missing THEN FALSE ELSE _use_ner
          /\ IF use_combined
             THEN /\ calls' = (calls \o constructed) \o <<"extractor.extract">>
                  /\ \/ /\ run' = [run EXCEPT !.entities = extract(run.text)]
                        /\ pc' = "chunk"
                     \/ Raise("NER model failed")
             ELSE /\ calls' = (calls \o constructed) \o <<"extract_all_entities">>
                  /\ run' = [run EXCEPT !.entities =
                                extract_all_entities(BatteryResults(run.text))]
                  /\ pc' = "chunk"
    /\ UNCHANGED <<dbvars, model_present, before, runs>>
    /\ UNCHANGED <<mvars, cvars, fvars>>

\* 4. self._doc_processor.process(text, document_id=s3_key)
Chunk ==
    /\ pc = "chunk"
    /\ calls' = Append(calls, "process")
    /\ run' = [run EXCEPT !.chunks = process(run.text, run.s3_key)]
    /\ pc' = "embed"
    /\ UNCHANGED <<dbvars, _use_ner, _extractor, model_present, before, runs>>
    /\ UNCHANGED <<mvars, cvars, fvars>>

\* Embed with a failed call of the collaborator tried again
Embed_retry ==
    /\ pc = "embed"
    /\ calls' = Append(calls, "embed_chunks")
    /\ \/ /\ run' = [run EXCEPT !.embedded_chunks =
                        [k \in 1..Len(run.chunks) |-> run.chunks[k] @@ [embedding |-> "vector"]]]
          /\ pc' = "map_metadata"
       \/ UNCHANGED <<run, pc>>
    /\ UNCHANGED <<dbvars, _use_ner, _extractor, model_present, before, runs>>
    /\ UNCHANGED <<mvars, cvars, fvars>>

\* 5. self.embedding_service.embed_chunks(chunks)
Embed ==
    /\ pc = "embed"
    /\ calls' = Append(calls, "embed_chunks")
    /\ \/ /\ run' = [run EXCEPT !.embedded_chunks =
                        [k \in 1..Len(run.chunks) |-> run.chunks[k] @@ [embedding |-> "vector"]]]
          /\ pc' = "map_metadata"
       \/ Raise("embedding failed")
    /\ UNCHANGED <<dbvars, _use_ner, _extractor, model_present, before, runs>>
    /\ UNCHANGED <<mvars, cvars, fvars>>

\* 6. map_entities_to_metadata(text, entities)
MapMetadata ==
    /\ pc = "map_metadata"
    /\ calls' = Append(calls, "map_entities_to_metadata")
    /\ run' = [run EXCEPT !.metadata = map_entities_to_metadata(run.entities)]
    /\ pc' = "assign_entities"
    /\ UNCHANGED <<dbvars, _use_ner, _extractor, model_present, before, runs>>
    /\ UNCHANGED <<mvars, cvars, fvars>>

\* 7a. _assign_entities_to_chunks(entities, chunks, text)
AssignEntities ==
    /\ pc = "assign_entities"
    /\ calls' = Append(calls, "_assign_entities_to_chunks")
    /\ run' = [run EXCEPT !.entities_per_chunk =
                  _assign_entities_to_chunks(run.entities, run.chunks, run.text)]
    /\ pc' = "quality_check"
    /\ UNCHANGED <<dbvars, _use_ner, _extractor, model_present, before, runs>>
    /\ UNCHANGED <<mvars, cvars, fvars>>

\* 7b. check_quality(metadata, entities, len(chunks), chunk_entity_counts)
QualityCheck ==
    /\ pc = "quality_check"
    /\ calls' = Append(calls, "check_quality")
    /\ run' = [run EXCEPT !.quality =
                  check_quality(run.metadata, run.entities, Len(run.chunks),
                                [k \in 1..Len(run.entities_per_chunk) |->
                                    Len(run.entities_per_chunk[k])])]
    /\ pc' = "upsert_contract"
    /\ UNCHANGED <<dbvars, _use_ner, _extractor, model_present, before, runs>>
    /\ UNCHANGED <<mvars, cvars, fvars>>

\* 8a. self.db.upsert_contract(metadata, s3_key)
UpsertContract ==
    /\ pc = "upsert_contract"
    /\ calls' = Append(calls, "upsert_contract")
    /\ \/ /\ contracts' = upsert_contract(contracts, run.metadata, run.s3_key, next_uuid)
          /\ run' = [run EXCEPT !.contract_id =
                        upsert_contract_id(contracts, run.metadata, run.s3_key, next_uuid)]
          /\ next_uuid' = next_uuid + 1
          /\ pc' = "store_chunks"
       \/ /\ Raise("upsert_contract failed")
          /\ UNCHANGED <<contracts, next_uuid>>
    /\ UNCHANGED <<db_chunks, annotations, audit_logs>>
    /\ UNCHANGED <<_use_ner, _extractor, model_present, before, runs>>
    /\ UNCHANGED <<mvars, cvars, fvars>>

\* 8b. self.db.store_chunks(contract_id, s3_key, embedded_chunks)
StoreChunks ==
    /\ pc = "store_chunks"
    /\ calls' = Append(calls, "store_chunks")
    /\ \/ LET rows == store_chunks(run.contract_id, run.s3_key, run.embedded_chunks, next_uuid)
          IN /\ db_chunks' = db_chunks \o rows
             /\ run' = [run EXCEPT !.chunk_ids = [k \in 1..Len(rows) |-> rows[k].id]]
             /\ next_uuid' = next_uuid + Len(rows)
             /\ pc' = "store_entity_annotations"
       \/ /\ Raise("store_chunks failed")
          /\ UNCHANGED <<db_chunks, next_uuid>>
    /\ UNCHANGED <<contracts, annotations, audit_logs>>
    /\ UNCHANGED <<_use_ner, _extractor, model_present, before, runs>>
    /\ UNCHANGED <<mvars, cvars, fvars>>

\* 8c. self.db.store_entity_annotations(chunk_ids, embedded_chunks, entities_per_chunk, ...)
StoreEntityAnnotations ==
    /\ pc = "store_entity_annotations"
    /\ calls' = Append(calls, "store_entity_annotations")
    /\ \/ LET rows == store_entity_annotations(run.chunk_ids, run.entities_per_chunk,
                                               _model_version)
          IN /\ annotations' = annotations \o rows
             /\ run' = [run EXCEPT !.annotation_count = Len(rows)]
             /\ pc' = "log_result"
       \/ /\ Raise("store_entity_annotations failed")
          /\ UNCHANGED annotations
    /\ UNCHANGED <<contracts, db_chunks, audit_logs, next_uuid>>
    /\ UNCHANGED <<_use_ner, _extractor, model_present, before, runs>>
    /\ UNCHANGED <<mvars, cvars, fvars>>

TerminalStatus_always_success(quality) == "SUCCESS"

\* "SUCCESS" if not quality.needs_human_review else "NEEDS_REVIEW"
TerminalStatus(quality) ==
    IF ~quality.needs_human_review THEN "SUCCESS" ELSE "NEEDS_REVIEW"

\* 9. the IngestionResult, the terminal audit entry, return
LogResult ==
    /\ pc = "log_result"
    /\ calls' = Append(calls, "log_agent_execution")
    /\ run' = [run EXCEPT !.result =
                  [contract_id |-> run.contract_id,
                   s3_key |-> run.s3_key,
                   document_type |-> run.document_type,
                   text_length |-> TextLen(run.text),
                   chunk_count |-> Len(run.chunks),
                   entity_count |-> Len(run.entities),
                   chunks_stored |-> Len(run.chunk_ids),
                   annotations_stored |-> run.annotation_count]]
    /\ audit_logs' = Append(audit_logs,
          LogRecord(run.task_id, TerminalStatus(run.quality), run.s3_key, run.document_type,
                    [contract_id |-> run.contract_id,
                     chunks |-> Len(run.chunks),
                     entities |-> Len(run.entities),
                     quality_issues |-> Len(run.quality.issues)],
                    None))
    /\ pc' = "returned"
    /\ UNCHANGED <<contracts, db_chunks, annotations, next_uuid>>
    /\ UNCHANGED <<_use_ner, _extractor, model_present, before, runs>>
    /\ UNCHANGED <<mvars, cvars, fvars>>

Except_no_log ==
    /\ pc = "except"
    /\ run' = [run EXCEPT !.raised = run.exc]
    /\ pc' = "raised"
    /\ UNCHANGED <<dbvars, calls>>
    /\ UNCHANGED <<_use_ner, _extractor, model_present, before, runs>>
    /\ UNCHANGED <<mvars, cvars, fvars>>

\* except Exception as exc: the FAILURE audit entry, then raise
Except ==
    /\ pc = "except"
    /\ calls' = Append(calls, "log_agent_execution")
    /\ audit_logs' = Append(audit_logs,
          LogRecord(run.task_id, "FAILURE", run.s3_key, run.document_type, None, run.exc))
    /\ run' = [run EXCEPT !.raised = run.exc]
    /\ pc' = "raised"
    /\ UNCHANGED <<contracts, db_chunks, annotations, next_uuid>>
    /\ UNCHANGED <<_use_ner, _extractor, model_present, before, runs>>
    /\ UNCHANGED <<mvars, cvars, fvars>>

Init ==
    /\ MergeIdle
    /\ ChunkIdle
    /\ PipelineIdle
    /\ FunctionsIdle
    /\ _use_ner \in BOOLEAN
    /\ model_present \in BOOLEAN

Next ==
    \/ Ingest
    \/ Fetch
    \/ ExtractText
    \/ ExtractEntities
    \/ Chunk
    \/ Embed
    \/ MapMetadata
    \/ AssignEntities
    \/ QualityCheck
    \/ UpsertContract
    \/ StoreChunks
    \/ StoreEntityAnnotations
    \/ LogResult
    \/ Except

Spec == Init /\ [][Next]_vars


----------------------------------------------------------------------------
(* Claims about the ingestion pipeline                                     *)

\* C1 as stated: when a stage of ingest raises, the contract, chunk and
\* annotation stores are exactly as they were before the run started.
C1_AllOrNothing ==
    pc = "raised" => <<contracts, db_chunks, annotations>> = before

TerminalStatuses == {"SUCCESS", "NEEDS_REVIEW", "FAILURE"}

LogIndexes(task_id, statuses) ==
    {i \in 1..Len(audit_logs) :
        audit_logs[i].task_id = task_id /\ audit_logs[i].status \in statuses}

\* the ingest call with this task id has returned or raised
Ended(task_id) == task_id # run.task_id \/ pc \in {"returned", "raised"}

\* C2: every ingest call writes a RUNNING entry first, before any other
\* collaborator is called, and, once it has returned or raised, exactly one
\* terminal entry with the same task id, after the RUNNING entry; a call still
\* in progress has no terminal entry.
C2_AuditEntries ==
    /\ Cardinality({audit_logs[i].task_id : i \in 1..Len(audit_logs)}) = runs
    /\ pc # "idle" => LogIndexes(run.task_id, {"RUNNING"}) # {}
    /\ calls # <<>> => calls[1] = "log_agent_execution"
    /\ \A i \in 1..Len(audit_logs) :
          LET task_id == audit_logs[i].task_id
              running == LogIndexes(task_id, {"RUNNING"})
              terminal == LogIndexes(task_id, TerminalStatuses)
          IN /\ Cardinality(running) = 1
             /\ Cardinality(terminal) = IF Ended(task_id) THEN 1 ELSE 0
             /\ \A r \in running, x \in terminal : r < x
             /\ audit_logs[i].status \in TerminalStatuses \cup {"RUNNING"}

\* C2 witness: two calls on one client, the first returned and the second
\* raised.
C2_Witness ==
    /\ pc = "raised"
    /\ runs = 2
    /\ Len(audit_logs) = 4
    /\ audit_logs[2].status \in {"SUCCESS", "NEEDS_REVIEW"}
    /\ audit_logs[4].status = "FAILURE"

LastLog == audit_logs[Len(audit_logs)]

\* C3: a call that raised has the terminal entry FAILURE with the error text
\* of the exception that ended the stage, and that exception reaches the
\* caller; a call that returned has NEEDS_REVIEW if the quality report asks
\* for human review and SUCCESS otherwise; FAILURE is logged exactly when a
\* stage raised.
C3_TerminalStatus ==
    /\ pc = "raised" =>
          /\ run.exc # None
          /\ LastLog.task_id = run.task_id
          /\ LastLog.status = "FAILURE"
          /\ LastLog.error_details = run.exc
          /\ run.raised = run.exc
          /\ run.result = None
    /\ pc = "returned" =>
          /\ run.exc = None
          /\ run.raised = None
          /\ LastLog.task_id = run.task_id
          /\ LastLog.status # "FAILURE"
          /\ LastLog.error_details = None
          /\ LastLog.status = "NEEDS_REVIEW" <=> run.quality.needs_human_review
          /\ LastLog.status = "SUCCESS" <=> ~run.quality.needs_human_review
    /\ pc \in {"returned", "raised"} => (LastLog.status = "FAILURE" <=> run.exc # None)

\* C3 witness: a first call failed on empty text, a second one returned with a
\* quality report that asks for review.
C3_Witness ==
    /\ pc = "returned"
    /\ runs = 2
    /\ LastLog.status = "NEEDS_REVIEW"
    /\ audit_logs[2].status = "FAILURE"
    /\ audit_logs[2].error_details = "Document produced empty text after extraction"

ExtractionAndPersistence ==
    {"extractor.extract", "extract_all_entities", "process", "embed_chunks",
     "upsert_contract", "store_chunks", "store_entity_annotations"}

\* the call was given an unsupported document type, or its document yields
\* empty text
UnsupportedInput ==
    /\ pc # "idle"
    /\ \/ run.document_type \notin {"docx", "pdf"}
       \/ /\ Objects(run.s3_key).format = run.document_type
          /\ Objects(run.s3_key).text = <<>>

\* C4: a call with an unsupported document type, or whose text extraction
\* yields empty text, never invokes entity extraction, chunking, embedding,
\* upsert_contract, store_chunks or store_entity_annotations, and does not
\* return.
C4_UnsupportedInputIsFatal ==
    UnsupportedInput =>
        /\ \A k \in 1..Len(calls) : calls[k] \notin ExtractionAndPersistence
        /\ pc \in {"fetch", "extract_text", "except", "raised"}
        /\ <<contracts, db_chunks, annotations>> = before

\* C4 witness: a call with type "txt" raised, then a call on the blank
\* document raised after text extraction.
C4_Witness ==
    /\ pc = "raised"
    /\ runs = 2
    /\ audit_logs[2].error_details = "Unsupported document type"
    /\ run.exc = "Document produced empty text after extraction"
    /\ calls = <<"log_agent_execution", "get_object", "extract_text", "log_agent_execution">>

----------------------------------------------------------------------------
(* Claims about chunking and section detection                             *)

\* C5 as stated: every chunk returned by DocumentProcessor.process has a
\* word count of at most the hard maximum max_tokens (600).
C5_HardTokenCap ==
    cphase = "done" => \A i \in 1..Len(chunks) : chunks[i].word_count <= _MAX_TOKENS

\* C6 as stated: the chunk_index values of the n returned chunks are exactly
\* 0, 1, ..., n-1 in emission order, with or without detected sections.
C6_SequentialChunkIndex ==
    cphase = "done" => \A i \in 1..Len(chunks) : chunks[i].chunk_index = i - 1

\* C9: a non-empty section list is sorted by start_char, contiguous, and its
\* last section ends at len(text).
C9_SectionsContiguous ==
    cphase = "done" /\ sections # <<>> =>
        /\ \A i, j \in 1..Len(sections) :
              i < j => sections[i].start_char <= sections[j].start_char
        /\ \A i \in 1..(Len(sections) - 1) :
              sections[i].end_char = sections[i+1].start_char
        /\ sections[Len(sections)].end_char = TextLen(text)

\* C9 witness: three sections, where a header of a later pattern family
\* precedes a "SECTION X" header in the text.
C9_Witness ==
    /\ cphase = "done"
    /\ Len(sections) = 3
    /\ \E i, j \in 1..Len(text) :
          i < j /\ text[i].hdr[1] \in {"LETTER", "PART", "ARTICLE"} /\ text[j].hdr[1] = "SECTION"

\* the paragraphs whose header line yields a match of the given section type
HeaderMatches(t, section_type) ==
    {i \in 1..Len(t) : t[i].hdr # NoHeader /\ SectionTypeOf(t[i].hdr[2]) = section_type}

\* C10: at most one section of each type; the retained one starts at the
\* earliest match of its type over all four pattern families; a later match of
\* a type starts no section.
C10_EarliestOfEachType ==
    cphase = "done" =>
        /\ \A i, j \in 1..Len(sections) :
              i # j => sections[i].section_type # sections[j].section_type
        /\ \A i \in 1..Len(sections) :
              LET ms == HeaderMatches(text, sections[i].section_type)
              IN /\ ms # {}
                 /\ \A q \in ms : sections[i].start_char <= ParaStart(text, q)
                 /\ \E q \in ms : sections[i].start_char = ParaStart(text, q)
        /\ \A q \in 1..Len(text) :
              (\E r \in 1..(q-1) : /\ text[q].hdr # NoHeader
                                  /\ r \in HeaderMatches(text, SectionTypeOf(text[q].hdr[2])))
                  => \A i \in 1..Len(sections) : sections[i].start_char # ParaStart(text, q)
        /\ \A q \in 1..Len(text) :
              text[q].hdr # NoHeader /\ SectionTypeOf(text[q].hdr[2]) # "SKIP"
                  => \E i \in 1..Len(sections) :
                        sections[i].section_type = SectionTypeOf(text[q].hdr[2])

\* C10 witness: two headers of different pattern families map to the same
\* section type, the one of the later family comes first in the text, and a
\* section of another type lies between them.
C10_Witness ==
    /\ cphase = "done"
    /\ Len(text) = 3
    /\ text[1].hdr = <<"PART", "II">>
    /\ text[2].hdr = <<"SECTION", "A">>
    /\ text[3].hdr = <<"SECTION", "B">>
    /\ Len(sections) = 2

----------------------------------------------------------------------------
(* Claims about the extraction merger and the tiered merge                 *)

SortedByStartType(s) ==
    \A i, j \in 1..Len(s) : i < j => ~LessStartType(s[j], s[i])

NoDuplicateKeys(s) ==
    \A i, j \in 1..Len(s) : i # j => Key(s[i]) # Key(s[j])

\* C7: the output of extract_all_entities and the output of the tiered merge
\* are sorted by (start_char, entity_type) and hold no two annotations with
\* the same (entity_type, start_char, end_char).
C7_CanonicalEntityLists ==
    mphase = "done" =>
        /\ SortedByStartType(rule_results) /\ NoDuplicateKeys(rule_results)
        /\ SortedByStartType(merged) /\ NoDuplicateKeys(merged)

\* C7 witness: the battery returned the same (type, start, end) twice and the
\* merge added a model annotation to the deduplicated Tier-1 list.
C7_Witness ==
    /\ mphase = "done"
    /\ \E i, j \in 1..Len(all_results) : i < j /\ Key(all_results[i]) = Key(all_results[j])
    /\ \E i \in 1..Len(merged) : merged[i].confidence = 0
    /\ Len(merged) >= 2

\* two half-open spans share at least one character position
SpanIntersects(a, b) ==
    \E p \in 0..MaxPos : /\ a.start_char <= p /\ p < a.end_char
                         /\ b.start_char <= p /\ p < b.end_char

Occurrences(s, a) == Cardinality({i \in 1..Len(s) : s[i] = a})

Tier1Of(s) == SelectIdx(s, LAMBDA i : s[i].confidence = 100)

\* a Tier-2 annotation the rule-based list suppresses
Suppressed(a, rule) ==
    \/ \E i \in 1..Len(rule) : Key(rule[i]) = Key(a)
    \/ \E i \in 1..Len(rule) : SpanIntersects(a, rule[i])

\* C8 as stated: every Tier-1 annotation is returned unchanged, a Tier-2
\* annotation is discarded if its key is in Tier-1 or its span overlaps a
\* Tier-1 span, and otherwise it is kept (every such annotation of the
\* Tier-2 list is in the result).
C8_Original ==
    mphase = "done" =>
        /\ Tier1Of(merged) = rule_results
        /\ \A a \in NerAnnotations :
              Occurrences(merged, a) =
                  IF Suppressed(a, rule_results) THEN 0 ELSE Occurrences(ner_results, a)

\* C8 amended: as C8, except that a Tier-2 annotation whose key repeats an
\* earlier Tier-2 annotation is discarded too, so each surviving Tier-2 key is
\* kept once; no Tier-2 annotation of the result overlaps a Tier-1 annotation.
C8_RulePriorityMerge ==
    mphase = "done" =>
        /\ Tier1Of(merged) = rule_results
        /\ \A a \in NerAnnotations :
              Occurrences(merged, a) =
                  IF Suppressed(a, rule_results) \/ Occurrences(ner_results, a) = 0
                  THEN 0 ELSE 1
        /\ \A i, j \in 1..Len(merged) :
              merged[i].confidence = 0 /\ merged[j].confidence = 100
                  => ~SpanIntersects(merged[i], merged[j])

\* C8 witness: one model annotation that only shares a boundary offset with a
\* rule-based span is kept, another that overlaps a rule-based span of a
\* different type is discarded.
C8_Witness ==
    /\ mphase = "done"
    /\ \E i \in 1..Len(merged), j \in 1..Len(rule_results) :
          /\ merged[i].confidence = 0
          /\ merged[i].start_char = rule_results[j].end_char
    /\ \E i \in 1..Len(ner_results), j \in 1..Len(rule_results) :
          /\ SpanIntersects(ner_results[i], rule_results[j])
          /\ ner_results[i].entity_type # rule_results[j].entity_type
          /\ Occurrences(merged, ner_results[i]) = 0

----------------------------------------------------------------------------
(* SpecQuality: check_quality called directly on a metadata record, an     *)
(* entity list and per-chunk entity counts.                                *)

MaxEntities == 3    \* entities passed to a directly called function
MaxChunks == 2      \* entries of chunk_entity_counts

\* an entity as check_quality reads it
QualityEntity(etype, value, confidence) ==
    [entity_type |-> etype, entity_value |-> value, confidence |-> confidence]

QualityEntities ==
    {QualityEntity("CONTRACT_NUMBER", v, 100) : v \in {"FA8726-24-C-0042", "W911NF-23-D-0001"}}
    \cup {QualityEntity("SECURITY_LEVEL", v, 100) : v \in {"Secret", "Top Secret"}}
    \cup {QualityEntity("CONTRACTING_OFFICER", "Smith", c) : c \in {0, 50}}

\* metadata records that differ in the fields check_quality reads
QualityMetadata ==
    {[ContractMetadata EXCEPT !.contract_number = cn, !.ceiling_value = cv,
                              !.pop_start = ps, !.pop_end = pe] :
        cn \in {None, "FA8726-24-C-0042"}, cv \in {None, "5000000.0"},
        ps \in {None, "2024-01-01"}, pe \in {None, "2025-01-01"}}

\* chunk_entity_counts: omitted, or one count per chunk
ChunkEntityCounts ==
    {NoCounts} \cup UNION {[1..n -> {0, 1}] : n \in 0..MaxChunks}

\* chunk_count as the callers pass it: len(chunks), 0 when the counts are omitted
ChunkCountOf(counts) == IF counts = NoCounts THEN 0 ELSE Len(counts)

PassQualityEntity ==
    /\ fphase = "input"
    /\ Len(in_entities) < MaxEntities
    /\ \E e \in QualityEntities : in_entities' = Append(in_entities, e)
    /\ UNCHANGED <<date_results, in_metadata, in_s3_key, in_chunk_entity_counts, out_metadata,
                   out_report, out_entities_per_chunk, out_contract_id, ncalls, fphase>>
    /\ UNCHANGED <<mvars, cvars, dbvars, pvars>>

CheckQuality ==
    /\ fphase = "input"
    /\ out_report' = check_quality(in_metadata, in_entities,
                                   ChunkCountOf(in_chunk_entity_counts),
                                   in_chunk_entity_counts)
    /\ fphase' = "done"
    /\ UNCHANGED <<date_results, in_entities, in_metadata, in_s3_key, in_chunk_entity_counts,
                   out_metadata, out_entities_per_chunk, out_contract_id, ncalls>>
    /\ UNCHANGED <<mvars, cvars, dbvars, pvars>>

InitQuality ==
    /\ MergeIdle /\ ChunkIdle /\ PipelineUnused
    /\ in_entities = <<>>
    /\ in_metadata \in QualityMetadata
    /\ in_chunk_entity_counts \in ChunkEntityCounts
    /\ out_metadata = "None"
    /\ out_report = "None"
    /\ out_entities_per_chunk = <<>>
    /\ in_s3_key = "None"
    /\ out_contract_id = 0
    /\ ncalls = 0
    /\ date_results = <<>>
    /\ fphase = "input"

NextQuality == PassQualityEntity \/ CheckQuality

SpecQuality == InitQuality /\ [][NextQuality]_vars

----------------------------------------------------------------------------
(* Properties of check_quality                                             *)

\* the four review-triggering rules, as conditions on the arguments
ContractNumberMissing == in_metadata.contract_number = None

ContractNumbersConflict ==
    \E i, j \in 1..Len(in_entities) :
        /\ in_entities[i].entity_type = "CONTRACT_NUMBER"
        /\ in_entities[j].entity_type = "CONTRACT_NUMBER"
        /\ in_entities[i].entity_value # in_entities[j].entity_value

MoreThanHalfEmpty ==
    /\ in_chunk_entity_counts # NoCounts
    /\ 2 * Cardinality({i \in 1..Len(in_chunk_entity_counts) :
                           in_chunk_entity_counts[i] = 0})
         > Len(in_chunk_entity_counts)

ZeroEntities == in_entities = <<>>

\* the warning-only rules
CeilingMissing == in_metadata.ceiling_value = None

PopDateMissing == in_metadata.pop_start = None \/ in_metadata.pop_end = None

LowConfidence ==
    \E i \in 1..Len(in_entities) :
        0 < in_entities[i].confidence /\ in_entities[i].confidence < 60

SecurityLevelsConflict ==
    \E i, j \in 1..Len(in_entities) :
        /\ in_entities[i].entity_type = "SECURITY_LEVEL"
        /\ in_entities[j].entity_type = "SECURITY_LEVEL"
        /\ in_entities[i].entity_value # in_entities[j].entity_value

If(cond, x) == IF cond THEN <<x>> ELSE <<>>

\* one reason per fired triggering rule, in evaluation order
ExpectedReasons ==
    If(ContractNumberMissing, "Missing contract number")
    \o If(ContractNumbersConflict, "Conflicting contract numbers")
    \o If(MoreThanHalfEmpty, "Many chunks without entities - possible extraction issue")
    \o If(ZeroEntities, "Zero entities extracted")

C11_TwoReasons ==
    /\ fphase = "done"
    /\ ContractNumbersConflict /\ MoreThanHalfEmpty
    /\ Len(out_report.review_reasons) = 2

\* the issue codes of the report, in order
Codes == [i \in 1..Len(out_report.issues) |-> out_report.issues[i].code]

\* the codes of the rules whose condition holds, in the fixed order
ExpectedCodes ==
    If(ContractNumberMissing, "MISSING_CONTRACT_NUMBER")
    \o If(CeilingMissing, "MISSING_CEILING_VALUE")
    \o If(PopDateMissing, "MISSING_POP_DATES")
    \o If(LowConfidence, "LOW_CONFIDENCE_ENTITIES")
    \o If(ContractNumbersConflict, "CONFLICTING_CONTRACT_NUMBERS")
    \o If(SecurityLevelsConflict, "CONFLICTING_SECURITY_LEVELS")
    \o If(MoreThanHalfEmpty, "MANY_EMPTY_CHUNKS")
    \o If(ZeroEntities, "NO_ENTITIES_EXTRACTED")

\* C12: the eight rules are evaluated independently and their issues are
\* appended in the fixed order, each code at most once; metadata without a
\* contract number and zero entities gives both MISSING_CONTRACT_NUMBER and
\* NO_ENTITIES_EXTRACTED with needs_human_review true.
C12_FixedRuleOrder ==
    fphase = "done" =>
        /\ Codes = ExpectedCodes
        /\ ContractNumberMissing /\ ZeroEntities =>
              /\ \E i, j \in 1..Len(Codes) :
                    /\ Codes[i] = "MISSING_CONTRACT_NUMBER"
                    /\ Codes[j] = "NO_ENTITIES_EXTRACTED"
              /\ out_report.needs_human_review

\* C12 witness: no contract number and zero entities, several rules fired.
C12_Witness ==
    /\ fphase = "done"
    /\ ContractNumberMissing /\ ZeroEntities /\ MoreThanHalfEmpty
    /\ Len(out_report.issues) >= 4

----------------------------------------------------------------------------
(* SpecMapper: map_entities_to_metadata called directly on an entity list  *)
(* of single-valued and list-valued entity types.                          *)

\* an entity as map_entities_to_metadata reads it; ctx: the keyword families
\* present in the +/-100-character window around the entity
MapperEntity(etype, value, metadata, ctx) ==
    [entity_type |-> etype, entity_value |-> value, metadata |-> metadata, ctx |-> ctx]

\* the entity types behind the single-valued fields
ScalarTypes ==
    {"CONTRACT_NUMBER", "NAICS_CODE", "PSC_CODE", "CAGE_CODE", "UEI_NUMBER",
     "SECURITY_LEVEL", "CONTRACTING_OFFICER"}

\* two values per entity type
ValuesOf(etype) ==
    CASE etype = "CONTRACT_NUMBER" -> {"FA8726-24-C-0042", "W911NF-23-D-0001"}
      [] etype = "NAICS_CODE" -> {"541512", "541330"}
      [] etype = "PSC_CODE" -> {"D302", "R425"}
      [] etype = "CAGE_CODE" -> {"1ABC2", "3DEF4"}
      [] etype = "UEI_NUMBER" -> {"ABCDEFGH1234", "ZYXWVUTS9876"}
      [] etype = "SECURITY_LEVEL" -> {"Secret", "Top Secret"}
      [] etype = "CONTRACTING_OFFICER" -> {"Smith", "Jones"}
      [] etype = "FAR_CLAUSE" -> {"52.202-1", "52.212-4"}
      [] etype = "DFARS_CLAUSE" -> {"252.204-7012", "252.225-7001"}

FieldEntities ==
    UNION {{MapperEntity(t, v, [source |-> "rule"], {}) : v \in ValuesOf(t)} :
              t \in ScalarTypes \cup {"FAR_CLAUSE", "DFARS_CLAUSE"}}

PassFieldEntity ==
    /\ fphase = "input"
    /\ Len(in_entities) < MaxEntities
    /\ \E e \in FieldEntities : in_entities' = Append(in_entities, e)
    /\ UNCHANGED <<date_results, in_metadata, in_s3_key, in_chunk_entity_counts, out_metadata,
                   out_report, out_entities_per_chunk, out_contract_id, ncalls, fphase>>
    /\ UNCHANGED <<mvars, cvars, dbvars, pvars>>

MapEntities ==
    /\ fphase = "input"
    /\ out_metadata' = map_entities_to_metadata(in_entities)
    /\ fphase' = "done"
    /\ UNCHANGED <<date_results, in_entities, in_metadata, in_s3_key, in_chunk_entity_counts,
                   out_report, out_entities_per_chunk, out_contract_id, ncalls>>
    /\ UNCHANGED <<mvars, cvars, dbvars, pvars>>

InitMapper == MergeIdle /\ ChunkIdle /\ PipelineUnused /\ FunctionsIdle

NextMapper == PassFieldEntity \/ MapEntities

SpecMapper == InitMapper /\ [][NextMapper]_vars

----------------------------------------------------------------------------
(* Properties of the entity loop of map_entities_to_metadata               *)

\* the entities of in_entities with this type, in entity order
OfType(etype) == SelectIdx(in_entities, LAMBDA i : in_entities[i].entity_type = etype)

EntityValues(es) == [i \in 1..Len(es) |-> es[i].entity_value]

\* the value a single-valued field must hold: that of the first entity of
\* its type, None without such an entity
FirstOf(etype) ==
    IF OfType(etype) = <<>> THEN None ELSE OfType(etype)[1].entity_value

\* C13: each single-valued field is set from the first entity of its type in
\* entity order and never overwritten by a later one; the FAR and DFARS lists
\* hold every clause value, repeats included, in entity order.
C13_FirstWinsListsAccumulate ==
    fphase = "done" =>
        /\ out_metadata.contract_number = FirstOf("CONTRACT_NUMBER")
        /\ out_metadata.naics_code = FirstOf("NAICS_CODE")
        /\ out_metadata.psc_code = FirstOf("PSC_CODE")
        /\ out_metadata.cage_code = FirstOf("CAGE_CODE")
        /\ out_metadata.uei_number = FirstOf("UEI_NUMBER")
        /\ out_metadata.security_level = UpperUnderscore(FirstOf("SECURITY_LEVEL"))
        /\ out_metadata.contracting_officer_name = FirstOf("CONTRACTING_OFFICER")
        /\ out_metadata.far_clauses = EntityValues(OfType("FAR_CLAUSE"))
        /\ out_metadata.dfars_clauses = EntityValues(OfType("DFARS_CLAUSE"))

\* C13 witness: two contract numbers with different values around a clause,
\* and the same clause entity twice.
C13_Witness ==
    /\ fphase = "done"
    /\ Len(OfType("CONTRACT_NUMBER")) = 2
    /\ OfType("CONTRACT_NUMBER")[1].entity_value # OfType("CONTRACT_NUMBER")[2].entity_value
    /\ out_metadata.contract_number = in_entities[1].entity_value
    /\ Len(out_metadata.far_clauses) = 1

\* a second C13 case: a repeated clause value is kept twice
C13_RepeatedClause ==
    /\ fphase = "done"
    /\ Len(out_metadata.far_clauses) = 2
    /\ out_metadata.far_clauses[1] = out_metadata.far_clauses[2]

----------------------------------------------------------------------------
(* SpecUpsert: a sequence of upsert_contract calls on one InMemoryDbClient *)

MaxUpserts == 3     \* upsert_contract calls on the client

\* metadata records that differ in contract number and ceiling value
UpsertMetadata ==
    {[ContractMetadata EXCEPT !.contract_number = cn, !.ceiling_value = cv] :
        cn \in {None, "", "FA8726-24-C-0042", "W911NF-23-D-0001"},
        cv \in {None, "5000000.0"}}

UpsertKeys == {"contract.docx", "amendment.docx"}

CallUpsert ==
    /\ ncalls < MaxUpserts
    /\ \E metadata \in UpsertMetadata, s3_key \in UpsertKeys :
          /\ in_metadata' = metadata
          /\ in_s3_key' = s3_key
          /\ contracts' = upsert_contract(contracts, metadata, s3_key, next_uuid)
          /\ out_contract_id' = upsert_contract_id(contracts, metadata, s3_key, next_uuid)
          /\ next_uuid' = IF FindContract(contracts,
                                          _meta_to_dict(metadata, s3_key).contract_number) # 0
                          THEN next_uuid ELSE next_uuid + 1
    /\ ncalls' = ncalls + 1
    /\ UNCHANGED <<date_results, in_entities, in_chunk_entity_counts, out_metadata, out_report,
                   out_entities_per_chunk, fphase>>
    /\ UNCHANGED <<db_chunks, annotations, audit_logs>>
    /\ UNCHANGED <<mvars, cvars, pvars>>

InitUpsert == MergeIdle /\ ChunkIdle /\ PipelineUnused /\ FunctionsIdle

NextUpsert == CallUpsert

SpecUpsert == InitUpsert /\ [][NextUpsert]_vars

\* the contract number a call with this metadata is keyed by
NumberOf(metadata) ==
    IF metadata.contract_number \in {None, ""} THEN "UNKNOWN" ELSE metadata.contract_number

\* the records of the store with this contract number
WithNumber(cs, number) == {i \in 1..Len(cs) : cs[i].contract_number = number}

\* C14: the store holds at most one contract record per contract number;
\* upserting a number that is already present returns the id of the existing
\* record and updates that record instead of adding a second one, and
\* upserting a new number adds one record.
C14_UpsertIdempotent ==
    /\ [](\A i, j \in 1..Len(contracts) :
              i # j => contracts[i].contract_number # contracts[j].contract_number)
    /\ [][ncalls' = ncalls + 1 =>
            IF WithNumber(contracts, NumberOf(in_metadata')) # {}
            THEN /\ Len(contracts') = Len(contracts)
                 /\ \A i \in 1..Len(contracts) :
                       IF contracts[i].contract_number = NumberOf(in_metadata')
                       THEN /\ out_contract_id' = contracts[i].id
                            /\ contracts'[i].id = contracts[i].id
                            /\ contracts'[i].contract_number = NumberOf(in_metadata')
                            /\ contracts'[i].ceiling_value = in_metadata'.ceiling_value
                            /\ contracts'[i].s3_document_key = in_s3_key'
                       ELSE contracts'[i] = contracts[i]
            ELSE /\ Len(contracts') = Len(contracts) + 1
                 /\ SubSeq(contracts', 1, Len(contracts)) = contracts
                 /\ contracts'[Len(contracts')].id = out_contract_id'
                 /\ contracts'[Len(contracts')].contract_number = NumberOf(in_metadata')
                 /\ \A i \in 1..Len(contracts) : contracts[i].id # out_contract_id'
         ]_vars

\* C14 witness: three calls left two records; the last call named the number
\* of the first record, got its id back and replaced its ceiling value and
\* document key.
C14_Witness ==
    /\ ncalls = 3
    /\ Len(contracts) = 2
    /\ out_contract_id = contracts[1].id
    /\ contracts[1].contract_number = "FA8726-24-C-0042"
    /\ contracts[1].s3_document_key = "amendment.docx"
    /\ contracts[1].ceiling_value = None
    /\ contracts[2].s3_document_key = "contract.docx"

----------------------------------------------------------------------------
(* Claims about the pipeline without the statistical model                 *)

\* the stages of ingest after entity extraction
AfterExtraction ==
    {"chunk", "embed", "map_metadata", "assign_entities", "quality_check",
     "upsert_contract", "store_chunks", "store_entity_annotations", "log_result",
     "returned"}

\* the collaborator calls of a call of ingest that returned without the
\* statistical model
Tier1Calls ==
    <<"log_agent_execution", "get_object", "extract_text", "extract_all_entities",
      "process", "embed_chunks", "map_entities_to_metadata",
      "_assign_entities_to_chunks", "check_quality", "upsert_contract",
      "store_chunks", "store_entity_annotations", "log_agent_execution">>

\* C15: when use_ner is false, or the construction of the CombinedExtractor
\* raises model-not-found, the entity extraction stage does not raise and goes
\* on to chunking with entities = extract_all_entities(text); every later
\* stage of the run works on that list, the statistical model is never called,
\* and a run that returns has gone through chunking, embedding, mapping,
\* quality check and the three persistence operations.
C15_Tier1Only ==
    /\ [][(pc = "extract_entities" /\ (~_use_ner \/ (_extractor = None /\ ~model_present))) =>
            /\ pc' = "chunk"
            /\ run'.exc = None
            /\ ~_use_ner'
            /\ run'.entities = extract_all_entities(BatteryResults(run.text))]_vars
    /\ []((~_use_ner /\ pc \in AfterExtraction) =>
            /\ run.entities = extract_all_entities(BatteryResults(run.text))
            /\ \A k \in 1..Len(calls) : calls[k] # "extractor.extract")
    /\ []((~_use_ner /\ pc \in {"except", "raised"}) =>
            run.exc \in {"get_object failed", "document parser failed",
                         "Unsupported document type",
                         "Document produced empty text after extraction",
                         "embedding failed", "upsert_contract failed",
                         "store_chunks failed", "store_entity_annotations failed"})
    /\ []((~_use_ner /\ pc = "returned") =>
            /\ SelectSeq(calls, LAMBDA c : c # "CombinedExtractor") = Tier1Calls
            /\ run.result.entity_count = Len(extract_all_entities(BatteryResults(run.text)))
            /\ run.result.chunks_stored = Len(process(run.text, run.s3_key)))

\* C15 witness: the construction of the CombinedExtractor raised
\* model-not-found in a call on the contract, whose contracting officer only
\* the statistical model finds; the call returned with the rule-based entities.
C15_Witness ==
    /\ pc = "returned"
    /\ ~_use_ner
    /\ calls[4] = "CombinedExtractor"
    /\ calls[5] = "extract_all_entities"
    /\ run.s3_key = "contract.docx"
    /\ run.entities # extract(run.text)
    /\ Len(annotations) > 0

\* C15 witness: a pipeline built with use_ner false returned without trying
\* to construct the CombinedExtractor.
C15_NerDisabled ==
    /\ pc = "returned"
    /\ runs = 1
    /\ ~_use_ner
    /\ calls = Tier1Calls

----------------------------------------------------------------------------
(* SpecAssign: a document with entity mentions is written paragraph by     *)
(* paragraph, entities found in it are passed in text order, then the      *)
(* document is chunked and _assign_entities_to_chunks runs.                *)

\* paragraphs of the documents of SpecAssign: a section header, short and
\* long paragraphs that mention a contract number, an amount or both, and a
\* paragraph above max_tokens whose second sentence mentions the amount
AssignParagraphs ==
    {DocParagraph(<<"SECTION", "A">>, NoClause, <<50>>, <<>>),
     DocParagraph(NoHeader, NoClause, <<50>>,
        <<Mention("CONTRACT_NUMBER", "FA8726-24-C-0042", 1, 8, "rule",
                  [source |-> "rule"], {})>>),
     DocParagraph(NoHeader, NoClause, <<300>>,
        <<Mention("CONTRACT_NUMBER", "FA8726-24-C-0042", 1, 16, "rule",
                  [source |-> "rule"], {}),
          Mention("DOLLAR_AMOUNT", "$5M", 1, 40, "rule",
                  [source |-> "rule"], {})>>),
     DocParagraph(NoHeader, NoClause, <<600, 600>>,
        <<Mention("DOLLAR_AMOUNT", "$5M", 2, 0, "rule",
                  [source |-> "rule"], {}),
          Mention("CONTRACTING_OFFICER", "Smith", 2, 24, "ner",
                  [source |-> "ner_model"], {})>>)}

\* the entities the extractors find in the text, each at its offset
FoundEntities ==
    UNION {{AnnotationOf(text, i, text[i].mentions[k]) : k \in 1..Len(text[i].mentions)} :
           i \in 1..Len(text)}

WriteMentionParagraph ==
    /\ fphase = "input"
    /\ Len(text) < MaxParas
    /\ \E p \in AssignParagraphs : text' = Append(text, p)
    /\ UNCHANGED <<sections, chunks, cphase>>
    /\ UNCHANGED <<mvars, dbvars, pvars, fvars>>

\* the next entity of the list, which is sorted by (start_char, entity_type)
PassFoundEntity ==
    /\ fphase = "input"
    /\ Len(in_entities) < MaxEntities
    /\ \E ent \in FoundEntities :
          /\ in_entities # <<>> => LessStartType(in_entities[Len(in_entities)], ent)
          /\ in_entities' = Append(in_entities, ent)
    /\ UNCHANGED <<date_results, in_metadata, in_s3_key, in_chunk_entity_counts, out_metadata,
                   out_report, out_entities_per_chunk, out_contract_id, ncalls, fphase>>
    /\ UNCHANGED <<mvars, cvars, dbvars, pvars>>

AssignEntitiesToChunks ==
    /\ fphase = "input"
    /\ sections' = detect(text)
    /\ chunks' = process(text, "")
    /\ out_entities_per_chunk' =
          _assign_entities_to_chunks(in_entities, process(text, ""), text)
    /\ cphase' = "done"
    /\ fphase' = "done"
    /\ UNCHANGED text
    /\ UNCHANGED <<date_results, in_entities, in_metadata, in_s3_key, in_chunk_entity_counts,
                   out_metadata, out_report, out_contract_id, ncalls>>
    /\ UNCHANGED <<mvars, dbvars, pvars>>

InitAssign == MergeIdle /\ ChunkIdle /\ PipelineUnused /\ FunctionsIdle

NextAssign == WriteMentionParagraph \/ PassFoundEntity \/ AssignEntitiesToChunks

SpecAssign == InitAssign /\ [][NextAssign]_vars

\* the text of a chunk of document t contains value: a paragraph or
\* sentence of the chunk mentions it
Contains(t, chunk, value) ==
    \E k \in 1..Len(chunk.parts) :
        \E y \in 1..Len(t[chunk.parts[k][1]].mentions) :
            /\ t[chunk.parts[k][1]].mentions[y].entity_value = value
            /\ chunk.parts[k][2] \in {0, t[chunk.parts[k][1]].mentions[y].sent}

ChunkContains(chunk, value) == Contains(text, chunk, value)

\* index of the first chunk that contains value, 0 when none does
FirstHolder(value) ==
    IF \E i \in 1..Len(chunks) : ChunkContains(chunks[i], value)
    THEN Min({i \in 1..Len(chunks) : ChunkContains(chunks[i], value)})
    ELSE 0

\* offset in the document of the character at offset off of part k of the chunk
DocOffset(chunk, k, off) ==
    ParaStart(text, chunk.parts[k][1])
      + (IF chunk.parts[k][2] = 0 THEN 0
         ELSE SentStart(text[chunk.parts[k][1]], chunk.parts[k][2]))
      + (off - PartStart(text, chunk.parts, k))

\* chunk_text[start_char:end_char] == value: the slice lies in one part of
\* the chunk, where the document has a mention of value
SliceIsValue(chunk, start_char, end_char, value) ==
    /\ end_char = start_char + ValueChars
    /\ \E k \in 1..Len(chunk.parts) :
          /\ PartStart(text, chunk.parts, k) <= start_char
          /\ end_char <= PartStart(text, chunk.parts, k) + PartChars(text, chunk.parts[k])
          /\ \E y \in 1..Len(text[chunk.parts[k][1]].mentions) :
                /\ text[chunk.parts[k][1]].mentions[y].entity_value = value
                /\ MentionStart(text, chunk.parts[k][1], text[chunk.parts[k][1]].mentions[y])
                     = DocOffset(chunk, k, start_char)

TypeValueConfidence(es) ==
    [k \in 1..Len(es) |-> <<es[k].entity_type, es[k].entity_value, es[k].confidence>>]

C16_Unassigned ==
    /\ fphase = "done"
    /\ Len(in_entities) = 2
    /\ FirstHolder(in_entities[1].entity_value) = 0
    /\ FirstHolder(in_entities[2].entity_value) = 1
    /\ Len(out_entities_per_chunk[1]) = 1

----------------------------------------------------------------------------
(* Claims about the counters of a completed run                            *)

\* the entities the extraction stage of the run returned
ExtractedEntities ==
    IF \E k \in 1..Len(calls) : calls[k] = "extractor.extract"
    THEN extract(run.text)
    ELSE extract_all_entities(BatteryResults(run.text))

\* the extracted entities whose value some chunk of the run contains
AssignedEntities ==
    {k \in 1..Len(ExtractedEntities) :
        \E i \in 1..Len(run.chunks) :
            Contains(run.text, run.chunks[i], ExtractedEntities[k].entity_value)}

\* the rows the run added to a store that held n rows before
AddedBy(store, n) == SubSeq(store, n + 1, Len(store))

\* C17: in the result of a returned call, entity_count is the number of
\* extracted entities, assigned to a chunk or not; annotations_stored is the
\* number of entities assigned to a chunk and the number of annotation rows
\* the run added, so it is at most entity_count and equal to it iff every
\* entity was assigned; chunks_stored equals chunk_count and the number of
\* chunk rows the run added; every annotation row the run added references
\* the id of a chunk row the same run added.
C17_Counters ==
    pc = "returned" =>
        /\ run.result.entity_count = Len(ExtractedEntities)
        /\ run.result.annotations_stored = Cardinality(AssignedEntities)
        /\ run.result.annotations_stored = Len(AddedBy(annotations, Len(before[3])))
        /\ run.result.annotations_stored <= run.result.entity_count
        /\ run.result.annotations_stored = run.result.entity_count
              <=> AssignedEntities = 1..Len(ExtractedEntities)
        /\ run.result.chunks_stored = run.result.chunk_count
        /\ run.result.chunk_count = Len(process(run.text, run.s3_key))
        /\ run.result.chunks_stored = Len(AddedBy(db_chunks, Len(before[2])))
        /\ \A a \in 1..Len(AddedBy(annotations, Len(before[3]))) :
              \E c \in 1..Len(AddedBy(db_chunks, Len(before[2]))) :
                  AddedBy(annotations, Len(before[3]))[a].chunk_id =
                      AddedBy(db_chunks, Len(before[2]))[c].id
        /\ \A a \in 1..Len(AddedBy(annotations, Len(before[3]))) :
              \A c \in 1..Len(before[2]) :
                  AddedBy(annotations, Len(before[3]))[a].chunk_id # before[2][c].id

\* C17 witness: the second call on a client returned; the date of the
\* contract's title line is in no chunk, so fewer annotations were stored
\* than entities counted.
C17_Witness ==
    /\ pc = "returned"
    /\ runs = 2
    /\ before[2] # <<>>
    /\ run.result.annotations_stored > 1
    /\ run.result.annotations_stored < run.result.entity_count

\* C17 witness: a call whose entities were all assigned to chunks.
C17_NoneDropped ==
    /\ pc = "returned"
    /\ run.result.entity_count > 0
    /\ run.result.annotations_stored = run.result.entity_count

----------------------------------------------------------------------------
(* Claims about clause tagging in the clauses section                      *)

\* the paragraphs of the section typed SECTION_I
SectionIParas ==
    {i \in 1..Len(text) :
        \E k \in 1..Len(sections) :
            /\ sections[k].section_type = "SECTION_I"
            /\ sections[k].start_char <= ParaStart(text, i)
            /\ ParaStart(text, i) < sections[k].end_char}

\* the paragraphs of the clauses section that start with a clause header
ClauseHeaderParas == {i \in SectionIParas : text[i].clause # NoClause}

\* the clause unit of paragraph i: its last clause header at or above i, 0
\* for text before the first header
UnitOf(i) ==
    IF \E j \in ClauseHeaderParas : j <= i
    THEN CHOOSE j \in ClauseHeaderParas :
            j <= i /\ \A h \in ClauseHeaderParas : h <= i => h <= j
    ELSE 0

\* _word_count of the clause unit that starts at paragraph j
UnitWC(j) ==
    SumSeq([i \in 1..Len(text) |->
              IF i \in SectionIParas /\ UnitOf(i) = j THEN ParaWC(text[i]) ELSE 0])

SectionIChunks == {c \in 1..Len(chunks) : chunks[c].section_type = "SECTION_I"}

\* the chunks made from the clause unit that starts at paragraph j
UnitChunks(j) == {c \in SectionIChunks : UnitOf(chunks[c].parts[1][1]) = j}

\* C18 as stated: in a clauses section with at least one clause header, no
\* chunk has text of two clause units; a chunk of a unit carries the unit's
\* clause number, also as parent_clause, and a chunk of the text before the
\* first header carries none; a unit within max_tokens yields exactly one
\* chunk and a longer unit several; chunks are in header order.
C18_ClauseTagging ==
    (cphase = "done" /\ ClauseHeaderParas # {}) =>
        /\ \A c \in SectionIChunks :
              /\ \A k \in 1..Len(chunks[c].parts) :
                    UnitOf(chunks[c].parts[k][1]) = UnitOf(chunks[c].parts[1][1])
              /\ chunks[c].clause_number =
                    IF UnitOf(chunks[c].parts[1][1]) = 0 THEN NoClause
                    ELSE text[UnitOf(chunks[c].parts[1][1])].clause
              /\ chunks[c].parent_clause = chunks[c].clause_number
        /\ \A j \in ClauseHeaderParas :
              IF UnitWC(j) <= _MAX_TOKENS
              THEN Cardinality(UnitChunks(j)) = 1
              ELSE Cardinality(UnitChunks(j)) > 1
        /\ \A c, d \in SectionIChunks :
              c < d => UnitOf(chunks[c].parts[1][1]) <= UnitOf(chunks[d].parts[1][1])

----------------------------------------------------------------------------
(* SpecDisambiguation: map_entities_to_metadata on lists of dollar         *)
(* amounts, period-of-performance ranges and dates                         *)

ContextFamilies(a, b) == {{}, {a}, {b}, {a, b}}

\* two amounts, each with every combination of ceiling and funding keywords
\* in its window
DollarEntities ==
    {MapperEntity("DOLLAR_AMOUNT", v, [source |-> "rule"], ctx) :
        v \in {"$5,000,000.00", "$1,250,000.00"},
        ctx \in ContextFamilies("ceiling", "funded")}

\* ranges that carry both dates, the start date only, the end date only
RangeEntities ==
    {MapperEntity("POP_RANGE", "01/01/2024 through 12/31/2024",
                  [source |-> "rule", start_date |-> "2024-01-01",
                   end_date |-> "2024-12-31"], {}),
     MapperEntity("POP_RANGE", "beginning 02/01/2025",
                  [source |-> "rule", start_date |-> "2025-02-01", end_date |-> ""], {}),
     MapperEntity("POP_RANGE", "ending 11/30/2025",
                  [source |-> "rule", end_date |-> "2025-11-30"], {})}

\* a date with every combination of start and end keywords in its window
DateEntities ==
    {MapperEntity("DATE", "June 30, 2026", [source |-> "rule", iso_date |-> "2026-06-30"], ctx) :
        ctx \in ContextFamilies("pop_start", "pop_end")}

PassContextEntity ==
    /\ fphase = "input"
    /\ Len(in_entities) < MaxEntities
    /\ \E e \in DollarEntities \cup RangeEntities \cup DateEntities :
          in_entities' = Append(in_entities, e)
    /\ UNCHANGED <<date_results, in_metadata, in_s3_key, in_chunk_entity_counts, out_metadata,
                   out_report, out_entities_per_chunk, out_contract_id, ncalls, fphase>>
    /\ UNCHANGED <<mvars, cvars, dbvars, pvars>>

InitDisambiguation == MergeIdle /\ ChunkIdle /\ PipelineUnused /\ FunctionsIdle

NextDisambiguation == PassContextEntity \/ MapEntities

SpecDisambiguation == InitDisambiguation /\ [][NextDisambiguation]_vars

----------------------------------------------------------------------------
(* Properties of the dollar loop and the date loop                         *)

\* the dollar rule as the statement has it: the default applies only to an
\* amount whose window matches neither keyword family
StatedDollar(meta, dent) ==
    IF meta.ceiling_value = None /\ "ceiling" \in dent.ctx
    THEN [meta EXCEPT !.ceiling_value = dent.entity_value]
    ELSE IF meta.funded_value = None /\ "funded" \in dent.ctx
    THEN [meta EXCEPT !.funded_value = dent.entity_value]
    ELSE IF meta.ceiling_value = None /\ dent.ctx = {}
    THEN [meta EXCEPT !.ceiling_value = dent.entity_value]
    ELSE meta

StatedDollars(dollars) ==
    LET G[i \in 0..Len(dollars)] ==
            IF i = 0 THEN ContractMetadata ELSE StatedDollar(G[i-1], dollars[i])
    IN G[Len(dollars)]

\* C19 as stated: over the dollar amounts in entity order, ceiling_value is
\* set by the first amount with a ceiling keyword in its window, funded_value
\* by the first amount with a funding keyword, an amount goes to ceiling_value
\* by default only if its window matches neither family and ceiling_value is
\* unset, and an amount in funding context is never written to ceiling_value.
C19_DollarDisambiguation ==
    fphase = "done" =>
        /\ out_metadata.ceiling_value = StatedDollars(OfType("DOLLAR_AMOUNT")).ceiling_value
        /\ out_metadata.funded_value = StatedDollars(OfType("DOLLAR_AMOUNT")).funded_value
        /\ out_metadata.ceiling_value # None =>
              \E k \in 1..Len(in_entities) :
                  /\ in_entities[k].entity_type = "DOLLAR_AMOUNT"
                  /\ in_entities[k].entity_value = out_metadata.ceiling_value
                  /\ in_entities[k].ctx # {"funded"}

\* the first range that carries this date
FirstRangeDate(key) ==
    LET carrying == SelectIdx(OfType("POP_RANGE"), LAMBDA i :
                        Get(OfType("POP_RANGE")[i].metadata, key, "") # "")
    IN IF carrying = <<>> THEN None ELSE carrying[1].metadata[key]

\* iso date of the first standalone date with this keyword family in its window
FirstDateIn(family) ==
    LET dates == SelectIdx(OfType("DATE"), LAMBDA i : family \in OfType("DATE")[i].ctx)
    IN IF dates = <<>> THEN None ELSE dates[1].metadata.iso_date

\* C20: pop_start and pop_end are those of the first range, in entity order,
\* that carries them, whatever dates and ranges come before or after it;
\* without such a range pop_start is the first date with start context, and
\* pop_end is a date with end context (none if no date has end context, set
\* if some date has end context only).
C20_PopPrecedence ==
    fphase = "done" =>
        /\ out_metadata.pop_start =
              IF FirstRangeDate("start_date") # None THEN FirstRangeDate("start_date")
              ELSE FirstDateIn("pop_start")
        /\ FirstRangeDate("end_date") # None =>
              out_metadata.pop_end = FirstRangeDate("end_date")
        /\ FirstRangeDate("end_date") = None =>
              /\ out_metadata.pop_end \in {None, FirstDateIn("pop_end")}
              /\ (\E k \in 1..Len(in_entities) :
                     in_entities[k].entity_type = "DATE" /\ in_entities[k].ctx = {"pop_end"})
                  => out_metadata.pop_end # None

\* C20 witness: a date with start and end context comes first, then a range
\* with the start date only, then a range with both dates; the start is that
\* of the first range, the end that of the second, the date fills nothing.
C20_Witness ==
    /\ fphase = "done"
    /\ Len(in_entities) = 3
    /\ in_entities[1].entity_type = "DATE"
    /\ in_entities[1].ctx = {"pop_start", "pop_end"}
    /\ in_entities[2].entity_value = "beginning 02/01/2025"
    /\ in_entities[3].entity_value = "01/01/2024 through 12/31/2024"
    /\ out_metadata.pop_start = "2025-02-01"
    /\ out_metadata.pop_end = "2024-12-31"

\* C20 witness: a range with the start date only and a date with end
\* context, which fills the empty end field.
C20_DateFillsEnd ==
    /\ fphase = "done"
    /\ Len(in_entities) = 2
    /\ in_entities[1].entity_type = "DATE"
    /\ in_entities[2].entity_type = "POP_RANGE"
    /\ out_metadata.pop_start = "2025-02-01"
    /\ out_metadata.pop_end = "2026-06-30"

----------------------------------------------------------------------------
(* Claims about "PART n" headers                                           *)

\* C21 as stated: every "PART n" header with a numeral of _PART_MAP is given
\* the section type of the mapped letter (I -> SECTION_A, II -> SECTION_B,
\* III -> SECTION_H, IV -> SECTION_K), so detect returns a section of that
\* type starting at or above the header, and a text whose only header is
\* "PART I" has no SECTION_I section.
C21_PartNumeralMap ==
    cphase = "done" =>
        /\ \A q \in 1..Len(text) :
              (text[q].hdr # NoHeader /\ text[q].hdr[1] = "PART"
                 /\ text[q].hdr[2] \in PartNumerals) =>
                  \E i \in 1..Len(sections) :
                      /\ sections[i].section_type =
                            _LETTER_TO_SECTION(_PART_MAP(text[q].hdr[2]))
                      /\ sections[i].start_char <= ParaStart(text, q)
        /\ (\A q \in 1..Len(text) : text[q].hdr \in {NoHeader, <<"PART", "I">>}) =>
              \A i \in 1..Len(sections) : sections[i].section_type # "SECTION_I"

----------------------------------------------------------------------------
(* SpecOverlap: a text without section headers is written sentence by      *)
(* sentence, a sentence either continuing the last paragraph or opening a  *)
(* new one, then DocumentProcessor.process runs on it.                     *)

MaxUnits == 5       \* sentences per document

\* whitespace-token counts of a sentence: within the overlap budget, and two
\* sizes that fill the target budget alone or with small sentences
OverlapWCs == {20, 300, 460}

WriteSentence ==
    /\ cphase = "input"
    /\ SumSeq([i \in 1..Len(text) |-> Len(text[i].sents)]) < MaxUnits
    /\ \E wc \in OverlapWCs :
          \/ text' = Append(text, Paragraph(NoHeader, NoClause, <<wc>>))
          \/ /\ text # <<>>
             /\ text' = [text EXCEPT ![Len(text)].sents = Append(@, wc)]
    /\ UNCHANGED <<sections, chunks, cphase>>
    /\ UNCHANGED <<mvars, dbvars, pvars, fvars>>

InitOverlap == MergeIdle /\ ChunkIdle /\ PipelineUnused /\ FunctionsIdle

NextOverlap == WriteSentence \/ Process

SpecOverlap == InitOverlap /\ [][NextOverlap]_vars

\* the number of units of chunk c + 1 that chunk c also has
SharedUnits(c) ==
    Cardinality({k \in 1..Len(chunks[c + 1].parts) :
                    \E j \in 1..Len(chunks[c].parts) :
                        chunks[c].parts[j] = chunks[c + 1].parts[k]})

\* the last n units of chunk c
Suffix(c, n) ==
    SubSeq(chunks[c].parts, Len(chunks[c].parts) - n + 1, Len(chunks[c].parts))

\* chunk c was closed by the accumulator that also built chunk c + 1: both
\* are made of paragraphs, or both of sentences of the same paragraph
SameAccumulator(c) ==
    \/ /\ chunks[c].parts[1][2] = 0
       /\ chunks[c + 1].parts[Len(chunks[c + 1].parts)][2] = 0
    \/ /\ chunks[c].parts[1][2] # 0
       /\ chunks[c + 1].parts[Len(chunks[c + 1].parts)][2] # 0
       /\ chunks[c].parts[1][1] = chunks[c + 1].parts[Len(chunks[c + 1].parts)][1]

\* C22: a chunk shares units only with the chunk closed right before it; the
\* shared units are the first units of the chunk and a suffix of the closed
\* chunk in the same order, of at most overlap_tokens words; when the
\* accumulator closed the chunk because the next unit would exceed the target
\* the suffix is the longest one within overlap_tokens, collected from the
\* end, and the new unit follows it; a chunk closed by a flush gives no
\* overlap.
C22_ControlledOverlap ==
    cphase = "done" =>
        /\ \A c \in 1..(Len(chunks) - 1) :
              /\ SubSeq(chunks[c + 1].parts, 1, SharedUnits(c)) = Suffix(c, SharedUnits(c))
              /\ PartsWC(text, Suffix(c, SharedUnits(c))) <= _OVERLAP_TOKENS
              /\ Len(chunks[c + 1].parts) > SharedUnits(c)
              /\ IF SameAccumulator(c)
                 THEN /\ chunks[c].word_count
                           + PartWC(text, chunks[c + 1].parts[SharedUnits(c) + 1])
                              > _TARGET_TOKENS
                      /\ SharedUnits(c) < Len(chunks[c].parts) =>
                            PartsWC(text, Suffix(c, SharedUnits(c) + 1)) > _OVERLAP_TOKENS
                 ELSE SharedUnits(c) = 0
        /\ \A c, d \in 1..Len(chunks) :
              c + 1 < d =>
                 \A k \in 1..Len(chunks[d].parts) :
                    \A j \in 1..Len(chunks[c].parts) :
                        chunks[c].parts[j] = chunks[d].parts[k] =>
                            \E x \in 1..Len(chunks[c + 1].parts) :
                                chunks[c + 1].parts[x] = chunks[d].parts[k]

\* C22 witness: a chunk closed by the paragraph accumulator hands its last
\* two paragraphs, 40 words, to the next chunk.
C22_Witness ==
    /\ cphase = "done"
    /\ Len(chunks) = 2
    /\ chunks[1].parts = <<<<1, 0>>, <<2, 0>>, <<3, 0>>>>
    /\ chunks[2].parts = <<<<2, 0>>, <<3, 0>>, <<4, 0>>>>
    /\ PartsWC(text, <<<<2, 0>>, <<3, 0>>>>) = 40

\* C22 witness: the sentence accumulator of a force split hands one sentence
\* to the next chunk.
C22_ForceSplit ==
    /\ cphase = "done"
    /\ Len(chunks) = 2
    /\ chunks[1].parts = <<<<1, 1>>, <<1, 2>>>>
    /\ chunks[2].parts = <<<<1, 2>>, <<1, 3>>>>

\* C22 witness: a chunk of one 20-word paragraph is flushed before a
\* paragraph above max_tokens and gives no overlap.
C22_FlushNoOverlap ==
    /\ cphase = "done"
    /\ Len(chunks) >= 2
    /\ chunks[1].parts = <<<<1, 0>>>>
    /\ chunks[1].word_count = 20
    /\ chunks[2].parts[1] = <<2, 1>>

----------------------------------------------------------------------------
(* extract_dates                                                           *)
(* A text is a sequence of fragments separated by "; ", which no date      *)
(* pattern matches across.  A fragment lists the matches its characters    *)
(* give the four date patterns: format, span inside the fragment, and the  *)
(* year, month and day the groups parse to.                                *)

DateMatch(format, s, e, year, month, day) ==
    [format |-> format, start_char |-> s, end_char |-> e,
     year |-> year, month |-> month, day |-> day]

Fragment(chars, matches) == [chars |-> chars, matches |-> matches]

Fragments ==
    {\* "01 January 2026"
     Fragment(15, <<DateMatch("DMY", 0, 15, 2026, 1, 1)>>),
     \* "January 1, 2026"
     Fragment(15, <<DateMatch("MDY", 0, 15, 2026, 1, 1)>>),
     \* "2026-01-01"
     Fragment(10, <<DateMatch("ISO", 0, 10, 2026, 1, 1)>>),
     \* "1/1/2026"
     Fragment(8, <<DateMatch("US", 0, 8, 2026, 1, 1)>>),
     \* "2026-01-01 January 2026"
     Fragment(23, <<DateMatch("DMY", 8, 23, 2026, 1, 1),
                    DateMatch("ISO", 0, 10, 2026, 1, 1)>>),
     \* "1/1/2026-01-01"
     Fragment(14, <<DateMatch("ISO", 4, 14, 2026, 1, 1),
                    DateMatch("US", 0, 8, 2026, 1, 1)>>),
     \* "January 1, 2026-01-01"
     Fragment(21, <<DateMatch("MDY", 0, 15, 2026, 1, 1),
                    DateMatch("ISO", 11, 21, 2026, 1, 1)>>),
     \* "30 February 2026"
     Fragment(16, <<DateMatch("DMY", 0, 16, 2026, 2, 30)>>)}

\* offset of fragment i in the text
FragmentStart(t, i) == SumSeq([j \in 1..(i-1) |-> t[j].chars + 2])

\* pattern.finditer(text): the matches of one format in text order
FindIter(t, format) ==
    LET Of(i) == SelectIdx([k \in 1..Len(t[i].matches) |->
                               [t[i].matches[k] EXCEPT
                                   !.start_char = @ + FragmentStart(t, i),
                                   !.end_char = @ + FragmentStart(t, i)]],
                           LAMBDA k : t[i].matches[k].format = format)
        F[i \in 0..Len(t)] == IF i = 0 THEN <<>> ELSE F[i-1] \o Of(i)
    IN F[Len(t)]

\* calendar.monthrange(year, month)[1]
MonthDays(year, month) ==
    IF month = 2
    THEN (IF year % 4 = 0 /\ (year % 100 # 0 \/ year % 400 = 0) THEN 29 ELSE 28)
    ELSE IF month \in {4, 6, 9, 11} THEN 30 ELSE 31

_validate_date(year, month, day) ==
    IF month < 1 \/ month > 12 THEN FALSE
    ELSE 1 <= day /\ day <= MonthDays(year, month)

\* f"{year:04d}-{month:02d}-{day:02d}", as the three numbers
_to_iso(year, month, day) == <<year, month, day>>

\* one iteration of a format loop; st: (results, seen_spans); the first
\* loop does not test seen_spans
DateStep(st, m, tests_seen) ==
    IF ~_validate_date(m.year, m.month, m.day) THEN st
    ELSE IF tests_seen /\ \E sp \in st.seen_spans :
                             sp[1] <= m.start_char /\ m.start_char < sp[2]
    THEN st
    ELSE [results |-> Append(st.results,
                             [entity_type |-> "DATE",
                              start_char |-> m.start_char,
                              end_char |-> m.end_char,
                              metadata |-> [iso_date |-> _to_iso(m.year, m.month, m.day)]]),
          seen_spans |-> st.seen_spans \cup {<<m.start_char, m.end_char>>}]

\* one format loop over its matches
DateLoop(st, ms, tests_seen) ==
    LET F[k \in 0..Len(ms)] == IF k = 0 THEN st ELSE DateStep(F[k-1], ms[k], tests_seen)
    IN F[Len(ms)]

extract_dates(t) ==
    DateLoop(DateLoop(DateLoop(DateLoop([results |-> <<>>, seen_spans |-> {}],
                                        FindIter(t, "DMY"), FALSE),
                               FindIter(t, "MDY"), TRUE),
                      FindIter(t, "ISO"), TRUE),
             FindIter(t, "US"), TRUE).results

----------------------------------------------------------------------------
(* SpecDates: a text is written fragment by fragment, then extract_dates   *)
(* runs on it.                                                             *)

MaxFragments == 3   \* fragments per text

WriteFragment ==
    /\ fphase = "input"
    /\ Len(text) < MaxFragments
    /\ \E f \in Fragments : text' = Append(text, f)
    /\ UNCHANGED <<sections, chunks, cphase>>
    /\ UNCHANGED <<mvars, dbvars, pvars, fvars>>

ExtractDates ==
    /\ fphase = "input"
    /\ date_results' = extract_dates(text)
    /\ fphase' = "done"
    /\ UNCHANGED <<in_entities, in_metadata, in_s3_key, in_chunk_entity_counts,
                   out_metadata, out_report, out_entities_per_chunk, out_contract_id,
                   ncalls>>
    /\ UNCHANGED <<mvars, cvars, dbvars, pvars>>

InitDates == MergeIdle /\ ChunkIdle /\ PipelineUnused /\ FunctionsIdle

NextDates == WriteFragment \/ ExtractDates

SpecDates == InitDates /\ [][NextDates]_vars

\* C23 as stated: no two DATE annotations returned by extract_dates have
\* overlapping spans (a.start < b.end and b.start < a.end).
C23_NoOverlappingDates ==
    fphase = "done" =>
        \A i, j \in 1..Len(date_results) :
            i # j => ~(/\ date_results[i].start_char < date_results[j].end_char
                       /\ date_results[j].start_char < date_results[i].end_char)

----------------------------------------------------------------------------
(* Claims about the order of the stages of ingest                          *)

\* C24 as stated: in a call with an unsupported document type the object
\* fetch is not called and no later stage runs: the only collaborator calls
\* of the run are those of the audit log.
C24_RejectedBeforeFetch ==
    (pc # "idle" /\ run.document_type \notin {"docx", "pdf"}) =>
        \A k \in 1..Len(calls) : calls[k] = "log_agent_execution"

\* the stage of ingest that makes each call, in the order of the code:
\* map_entities_to_metadata (step 6) precedes _assign_entities_to_chunks (step 7)
StageOf(name) ==
    CASE name = "get_object" -> 1
      [] name = "extract_text" -> 2
      [] name \in {"CombinedExtractor", "extractor.extract", "extract_all_entities"} -> 3
      [] name = "process" -> 4
      [] name = "embed_chunks" -> 5
      [] name = "map_entities_to_metadata" -> 6
      [] name = "_assign_entities_to_chunks" -> 7
      [] name = "check_quality" -> 8
      [] name = "upsert_contract" -> 9
      [] name = "store_chunks" -> 10
      [] name = "store_entity_annotations" -> 11

\* the terminal audit entry of a call of ingest comes after every stage
LastStage == StageOf("store_entity_annotations") + 1

\* the stage of each call in the order the specification states:
\* ASSIGN_ENTITIES_TO_CHUNKS before MAP_METADATA
StatedStageOf(name) ==
    CASE name = "_assign_entities_to_chunks" -> 6
      [] name = "map_entities_to_metadata" -> 7
      [] OTHER -> StageOf(name)

\* the stage of the k-th call of the current run: the RUNNING entry is
\* written first, the terminal entry last
CodeStage(k) ==
    IF calls[k] = "log_agent_execution"
    THEN IF k = 1 THEN 0 ELSE LastStage
    ELSE StageOf(calls[k])

StatedStage(k) ==
    IF calls[k] = "log_agent_execution"
    THEN IF k = 1 THEN 0 ELSE LastStage
    ELSE StatedStageOf(calls[k])

\* nothing is called twice in a run but the audit log, at its two ends
CalledAtMostOnce ==
    \A j \in 1..Len(calls) : \A k \in (j + 1)..Len(calls) :
        calls[j] = calls[k] =>
            calls[j] = "log_agent_execution" /\ j = 1 /\ k = Len(calls)

\* C25 as stated: the calls of a run follow the order FETCH, TEXT_EXTRACT,
\* ENTITY_EXTRACT, CHUNK, EMBED, ASSIGN_ENTITIES_TO_CHUNKS, MAP_METADATA,
\* QUALITY_CHECK, PERSIST, and nothing is called twice.
C25_StatedOrder ==
    /\ CalledAtMostOnce
    /\ \A k \in 1..(Len(calls) - 1) : StatedStage(k) <= StatedStage(k + 1)

\* C25 amended: the calls of a run follow the order FETCH, TEXT_EXTRACT,
\* ENTITY_EXTRACT, CHUNK, EMBED, MAP_METADATA, ASSIGN_ENTITIES_TO_CHUNKS,
\* QUALITY_CHECK, PERSIST (upsert contract, store chunks, store annotations):
\* every call belongs to the stage of the call before it (only the
\* construction of the extractor shares its stage) or to the next stage, no
\* stage is skipped but by the terminal audit entry, a run that returned went
\* through all of them, and no collaborator operation is invoked twice.
C25_StageOrder ==
    /\ CalledAtMostOnce
    /\ \A k \in 1..(Len(calls) - 1) :
          /\ CodeStage(k) <= CodeStage(k + 1)
          /\ CodeStage(k) = CodeStage(k + 1) => calls[k] = "CombinedExtractor"
          /\ CodeStage(k + 1) # LastStage => CodeStage(k + 1) <= CodeStage(k) + 1
    /\ pc = "returned" =>
          \A stage \in 0..LastStage : \E k \in 1..Len(calls) : CodeStage(k) = stage

\* a run that returned called map_entities_to_metadata and right after it
\* _assign_entities_to_chunks
C25_Witness ==
    /\ pc = "returned"
    /\ \E k \in 1..(Len(calls) - 1) :
          /\ calls[k] = "map_entities_to_metadata"
          /\ calls[k + 1] = "_assign_entities_to_chunks"

----------------------------------------------------------------------------
(* SpecCoverage: a document with section headers, clause headers, short    *)
(* and giant paragraphs is written paragraph by paragraph, then            *)
(* DocumentProcessor.process runs on it.                                   *)

MaxCoverageParas == 4

CoverageParagraphs ==
    {Paragraph(NoHeader, NoClause, ss) : ss \in {<<50>>, <<460>>, <<300, 600>>}}
    \cup {Paragraph(h, NoClause, <<50>>) : h \in ChunkHeaders}
    \cup {Paragraph(NoHeader, "52.202-1", ss) : ss \in {<<50>>, <<300, 600>>}}

WriteCoverageParagraph ==
    /\ cphase = "input"
    /\ Len(text) < MaxCoverageParas
    /\ \E p \in CoverageParagraphs : text' = Append(text, p)
    /\ UNCHANGED <<sections, chunks, cphase>>
    /\ UNCHANGED <<mvars, dbvars, pvars, fvars>>

InitCoverage == MergeIdle /\ ChunkIdle /\ PipelineUnused /\ FunctionsIdle

NextCoverage == WriteCoverageParagraph \/ Process

SpecCoverage == InitCoverage /\ [][NextCoverage]_vars

\* sentence k of paragraph i is in the text of chunk c, as a sentence of its
\* own or inside the whole paragraph
HasSentence(c, i, k) ==
    \E n \in 1..Len(chunks[c].parts) :
        chunks[c].parts[n] = <<i, 0>> \/ chunks[c].parts[n] = <<i, k>>

\* the parts of chunk c follow the order of the text
InTextOrder(c) ==
    \A m \in 1..Len(chunks[c].parts) : \A n \in (m + 1)..Len(chunks[c].parts) :
        \/ chunks[c].parts[m][1] < chunks[c].parts[n][1]
        \/ /\ chunks[c].parts[m][1] = chunks[c].parts[n][1]
           /\ 0 < chunks[c].parts[m][2]
           /\ chunks[c].parts[m][2] < chunks[c].parts[n][2]

\* paragraph i starts at or after the first detected header
AfterFirstHeader(i) == sections[1].start_char <= ParaStart(text, i)

\* C26: when at least one section is detected, every sentence at or after the
\* start of the first section is in the text of at least one chunk, the parts
\* of every chunk follow the order of the text, and no paragraph before the
\* first header is in any chunk.
C26_ChunkCoverage ==
    (cphase = "done" /\ sections # <<>>) =>
        /\ \A i \in 1..Len(text) :
              IF AfterFirstHeader(i)
              THEN \A k \in 1..Len(text[i].sents) :
                       \E c \in 1..Len(chunks) : HasSentence(c, i, k)
              ELSE \A c \in 1..Len(chunks) : \A n \in 1..Len(chunks[c].parts) :
                       chunks[c].parts[n][1] # i
        /\ \A c \in 1..Len(chunks) : InTextOrder(c)

\* a processed text with a paragraph before its first header, a paragraph
\* split by sentences and a unit that two chunks share
C26_Witness ==
    /\ cphase = "done"
    /\ sections # <<>>
    /\ ~AfterFirstHeader(1)
    /\ \E c \in 1..Len(chunks) : chunks[c].parts[1][2] > 0
    /\ \E c \in 1..(Len(chunks) - 1) :
          chunks[c].parts[Len(chunks[c].parts)] = chunks[c + 1].parts[1]

\* a processed clauses section whose long clause is split
C26_ClauseSplit ==
    /\ cphase = "done"
    /\ sections # <<>>
    /\ \E c \in 1..Len(chunks) :
          /\ chunks[c].clause_number # NoClause
          /\ chunks[c].parts[1][2] > 0

----------------------------------------------------------------------------
(* Claims about the store after several calls of ingest                    *)

\* a record without some of its fields
Without(row, fields) == [f \in DOMAIN row \ fields |-> row[f]]

\* the last three audit entries are the terminal entry of the call before,
\* and the RUNNING and terminal entries of the call that just returned
PreviousTerminal == audit_logs[Len(audit_logs) - 2]

\* ingest returned, and the call before it had returned for the same document
SameDocumentAgain ==
    /\ pc = "returned"
    /\ Len(audit_logs) >= 4
    /\ PreviousTerminal.status \in {"SUCCESS", "NEEDS_REVIEW"}
    /\ PreviousTerminal.input_summary.s3_key = run.s3_key
    /\ PreviousTerminal.input_summary.document_type = run.document_type

\* C27: after a document is ingested a second time on the same client there
\* is still one contract record for it, and the store holds two complete sets
\* of its chunks and annotations: the second call adds no contract, adds a
\* row with a new id for every chunk, equal to the row of the first call in
\* everything but the id, and an annotation for every annotation of the first
\* call, attached to the new row; all of them carry the one contract id.
C27_AppendOnly ==
    SameDocumentAgain =>
        LET n == Len(run.chunks)
            old == Len(before[2]) - n
            new == Len(before[2])
            m == run.annotation_count
            aold == Len(before[3]) - m
            anew == Len(before[3])
        IN /\ Len(contracts) = Len(before[1])
           /\ Cardinality({i \in 1..Len(contracts) :
                             contracts[i].id = run.contract_id}) = 1
           /\ old >= 0 /\ Len(db_chunks) = new + n
           /\ \A k \in 1..n :
                 /\ Without(db_chunks[new + k], {"id"}) = Without(db_chunks[old + k], {"id"})
                 /\ db_chunks[new + k].contract_id = run.contract_id
           /\ \A j, k \in 1..Len(db_chunks) : db_chunks[j].id = db_chunks[k].id => j = k
           /\ aold >= 0 /\ Len(annotations) = anew + m
           /\ \A a \in 1..m :
                 /\ Without(annotations[anew + a], {"chunk_id"})
                       = Without(annotations[aold + a], {"chunk_id"})
                 /\ \E k \in 1..n :
                       /\ annotations[aold + a].chunk_id = db_chunks[old + k].id
                       /\ annotations[anew + a].chunk_id = db_chunks[new + k].id

\* the same document was ingested twice, with chunks and annotations stored
C27_Witness ==
    /\ SameDocumentAgain
    /\ Len(run.chunks) > 1
    /\ run.annotation_count > 1
    /\ Len(db_chunks) = 2 * Len(run.chunks)

----------------------------------------------------------------------------
(* SpecUnknown: documents without a contract number are ingested on one    *)
(* pipeline and one InMemoryDbClient.                                      *)

UnnumberedKeys == {"memo.pdf", "letter.pdf"}

\* ingest is called for a document without a contract number
IngestUnnumbered ==
    /\ pc \in {"idle", "returned", "raised"}
    /\ runs < MaxRuns
    /\ \E key \in UnnumberedKeys :
          /\ run' = [NoRun EXCEPT !.s3_key = key, !.document_type = "pdf",
                                  !.task_id = next_uuid]
          /\ audit_logs' = Append(audit_logs,
                                  LogRecord(next_uuid, "RUNNING", key, "pdf", None, None))
    /\ next_uuid' = next_uuid + 1
    /\ calls' = <<"log_agent_execution">>
    /\ before' = <<contracts, db_chunks, annotations>>
    /\ runs' = runs + 1
    /\ pc' = "fetch"
    /\ UNCHANGED <<contracts, db_chunks, annotations, _use_ner, _extractor, model_present>>
    /\ UNCHANGED <<mvars, cvars, fvars>>

NextUnknown ==
    \/ IngestUnnumbered
    \/ Fetch
    \/ ExtractText
    \/ ExtractEntities
    \/ Chunk
    \/ Embed
    \/ MapMetadata
    \/ AssignEntities
    \/ QualityCheck
    \/ UpsertContract
    \/ StoreChunks
    \/ StoreEntityAnnotations
    \/ LogResult
    \/ Except

SpecUnknown == Init /\ [][NextUnknown]_vars

\* the terminal audit entries of the calls that returned
ReturnedEntries ==
    {k \in 1..Len(audit_logs) : audit_logs[k].status \in {"SUCCESS", "NEEDS_REVIEW"}}

\* C28: a run whose metadata has no contract number is upserted under
\* "UNKNOWN": however many documents without a contract number were ingested,
\* the store holds one contract record, numbered "UNKNOWN", whose fields, the
\* document key included, are those of the last run that returned; every run
\* returned this record's id, and the chunks of all the documents carry it.
C28_UnknownContract ==
    pc = "returned" =>
        /\ ~Truthy(run.metadata.contract_number)
        /\ Len(contracts) = 1
        /\ contracts[1].contract_number = "UNKNOWN"
        /\ contracts[1].s3_document_key = run.s3_key
        /\ contracts[1].funded_value = run.metadata.funded_value
        /\ contracts[1].ceiling_value = run.metadata.ceiling_value
        /\ contracts[1].pop_start = run.metadata.pop_start
        /\ contracts[1].pop_end = run.metadata.pop_end
        /\ run.result.contract_id = contracts[1].id
        /\ \A k \in ReturnedEntries :
              audit_logs[k].output_summary.contract_id = contracts[1].id
        /\ \A k \in 1..Len(db_chunks) : db_chunks[k].contract_id = contracts[1].id

\* two different documents without a contract number were ingested, the
\* later one with other field values than the earlier one
C28_Witness ==
    /\ pc = "returned"
    /\ Cardinality(ReturnedEntries) = 2
    /\ \E j, k \in ReturnedEntries :
          /\ j < k
          /\ audit_logs[j].input_summary.s3_key = "memo.pdf"
          /\ audit_logs[k].input_summary.s3_key = "letter.pdf"
    /\ {db_chunks[k].document_s3_key : k \in 1..Len(db_chunks)} = UnnumberedKeys
    /\ contracts[1].funded_value # None
    /\ contracts[1].pop_start = None

----------------------------------------------------------------------------
(* Claims about the values a pipeline run maps and checks                  *)

\* the stages of ingest after map_entities_to_metadata returned
AfterMapping ==
    {"assign_entities", "quality_check", "upsert_contract", "store_chunks",
     "store_entity_annotations", "log_result", "returned"}

\* the DOLLAR_AMOUNT entities of the run
RunDollars ==
    {k \in 1..Len(run.entities) : run.entities[k].entity_type = "DOLLAR_AMOUNT"}

\* value is the matched text of a dollar entity of the run and the normalized
\* value of none
IsRawDollarText(value) ==
    /\ \E k \in RunDollars : run.entities[k].entity_value = value
    /\ \A k \in RunDollars :
          /\ "normalized" \notin DOMAIN run.entities[k].metadata
          /\ "normalized_value" \in DOMAIN run.entities[k].metadata =>
                run.entities[k].metadata["normalized_value"] # value

\* C29: in a pipeline run ceiling_value and funded_value, when set, are the
\* matched text of a DOLLAR_AMOUNT entity, never its normalized value: the
\* extractor stores that under "normalized_value", the mapper reads "normalized".
C29_RawDollarText ==
    pc \in AfterMapping =>
        /\ run.metadata.ceiling_value # None => IsRawDollarText(run.metadata.ceiling_value)
        /\ run.metadata.funded_value # None => IsRawDollarText(run.metadata.funded_value)

\* a run that returned with a ceiling and a funded value from entities that
\* carry a normalized value
C29_Witness ==
    /\ pc = "returned"
    /\ run.metadata.ceiling_value = "$9M"
    /\ run.metadata.funded_value = "$2M"
    /\ \A k \in RunDollars : "normalized_value" \in DOMAIN run.entities[k].metadata
    /\ Cardinality(RunDollars) = 2

\* the stages of ingest after check_quality returned
AfterQualityCheck ==
    {"upsert_contract", "store_chunks", "store_entity_annotations", "log_result",
     "returned"}

\* C30: every entity that reaches the quality check has confidence 1.0 when
\* the rule-based battery found it and 0.0 when the statistical model found
\* it, so the QualityReport of a pipeline run never has the issue
\* LOW_CONFIDENCE_ENTITIES.
C30_NoLowConfidence ==
    /\ pc \in {"quality_check"} \cup AfterQualityCheck =>
          \A k \in 1..Len(run.entities) :
              run.entities[k].confidence =
                  IF run.entities[k].metadata.source = "ner_model" THEN 0 ELSE 100
    /\ pc \in AfterQualityCheck =>
          \A k \in 1..Len(run.quality.issues) :
              run.quality.issues[k].code # "LOW_CONFIDENCE_ENTITIES"

\* a run that returned with entities of both tiers and a report with issues
C30_Witness ==
    /\ pc = "returned"
    /\ \E k \in 1..Len(run.entities) : run.entities[k].confidence = 0
    /\ \E k \in 1..Len(run.entities) : run.entities[k].confidence = 100
    /\ run.quality.issues # <<>>

====
